---- MODULE Spec2Model ----
(***************************************************************************)
(* Model of the CoinMarketCap MCP server: the analytics engine            *)
(* (TechnicalAnalysisTools, HistoricalAnalysisTools), the signal           *)
(* aggregator, the API tier manager and the tool dispatch of the server.   *)
(*                                                                         *)
(* Numbers.  The engine computes on IEEE doubles.  A JavaScript value is   *)
(* modelled as a record [t, v]: t = "num" with v the value in fixed point  *)
(* (v = value * Scale, rounded down), t = "nan" for NaN and t = "undef"    *)
(* for undefined (an array read outside the array).  Arithmetic on a       *)
(* non-number yields NaN and every comparison with one is false, as in     *)
(* JavaScript.  Arrays are sequences; the element the code reads as a[i]   *)
(* is At(a, i), with i counted from 0 as in the source.                    *)
(***************************************************************************)
EXTENDS Integers, Sequences, FiniteSets, TLC

VARIABLES
  closes,      \* indicator input: the close prices of the candle series
  volumes,     \* indicator input: the volumes of the candle series
  period,      \* RSI input: the period argument
  macd,        \* result of calculateMACD on closes, or NoResult
  rsi,         \* result of the RSI computation on closes, or NoResult
  via,         \* how rsi was obtained: "none", "function" or "tool"
  indicator,   \* result of one indicator operation on closes, or NoResult
  signals,     \* aggregator input: the list of {signal, weight} records
  strategy,    \* aggregator input: the strategy profile
  overall,     \* result of calculateOverallSignal, or NoResult
  assetCloses, \* risk input: the closes of the asset's candle series
  bench,       \* risk input: the benchmark, [fetch, closes]
  riskFreeRate, \* risk input: the risk_free_rate argument, in percent
  risk,        \* result of calculateRiskMetrics, or NoResult
  tier,        \* server: the configured API tier (CMC_API_TIER)
  cache,       \* server: the keys the CacheManager holds
  results,     \* server: for each tool result held, the call it answers
  listed,      \* server: the tool names of the last tools/list answer
  call,        \* server: what the last tools/call did and answered
  toolset,     \* server: which tool classes the build wires in
  calls,       \* server: the number of tools/call requests handled
  op,          \* statistics: the function applied, or "none"
  sample,      \* statistics input: a return series, or the closes of candles
  other,       \* statistics input: the second return series of a correlation
  stat,        \* result of the statistics function, or NoResult
  now,         \* client: Date.now() in milliseconds
  maxRequestsPerMinute, \* client: the configured request limit
  requestCount,  \* client: requests counted in the current window
  lastResetTime, \* client: when the current window started
  sendTimes,   \* client: the time of every request passed on to the provider
  outcome,     \* client: what became of each client.get call so far
  clock,       \* limiters: Date.now() in milliseconds
  limiter,     \* a RateLimiter: [requests, maxRequests, timeWindow]
  bucket,      \* a TokenBucket: [tokens, lastRefill, capacity, refillRate]
  reply,       \* limiters: the last call made and what it returned
  grants       \* token bucket: the time and size of every consume granted

engineVars == <<closes, volumes, period, macd, rsi, via, indicator>>
signalVars == <<signals, strategy, overall>>
riskVars == <<assetCloses, bench, riskFreeRate, risk>>
serverVars == <<tier, toolset, cache, results, listed, call, calls>>
statVars == <<op, sample, other, stat>>
clientVars == <<now, maxRequestsPerMinute, requestCount, lastResetTime, sendTimes, outcome>>
limiterVars == <<clock, limiter, bucket, reply, grants>>

vars == <<closes, volumes, period, macd, rsi, via, indicator, signals, strategy, overall,
          assetCloses, bench, riskFreeRate, risk, tier, toolset, cache, results, listed,
          call, calls, op, sample, other, stat, now, maxRequestsPerMinute,
          requestCount, lastResetTime, sendTimes, outcome,
          clock, limiter, bucket, reply, grants>>

----------------------------------------------------------------------------
(* Bounds of the model *)

Scale == 1000          \* fixed-point resolution: one unit is 1/Scale
MaxCandles == 42       \* longest candle series given to MACD
MaxRsiCandles == 6     \* longest candle series given to RSI
MaxRsiPeriod == 3      \* largest RSI period explored besides the default
MaxSignals == 3        \* longest signal list given to the aggregator
MaxRiskCandles == 12   \* longest candle series given to the risk calculator
MaxToolCalls == 2      \* tools/call requests handled in one run of the server
TickMs == 30000        \* milliseconds by which the clock advances in one step
MaxTicks == 4          \* clock steps in one run of the client
MaxRate == 2           \* largest small request limit configured
MaxClientCalls == 5    \* client.get calls in one run of the client
MaxStatLen == 5        \* longest series given to a statistics function
MaxPairLen == 3        \* longest series given to calculateCorrelation
MaxIndicatorCandles == 4 \* longest series given to one indicator operation
MaxIndicatorPeriod == 3  \* largest period given to one indicator operation
MaxLimiterTicks == 4   \* clock steps in one run of a limiter
MaxLimiterRequests == 2 \* largest maxRequests of a RateLimiter
MaxCapacity == 2       \* largest capacity of a TokenBucket
MaxRefillRate == 2     \* largest refill rate of a TokenBucket, tokens per second
MaxConsume == 2        \* largest number of tokens asked of consume
MaxGrants == 3         \* consume calls granted in one run of a TokenBucket

----------------------------------------------------------------------------
(* JavaScript numbers *)

Num(x) == [t |-> "num", v |-> x]
NaN == [t |-> "nan", v |-> 0]
Undef == [t |-> "undef", v |-> 0]
NoResult == [status |-> "none"]

IsNum(a) == a.t = "num"

\* a[i] of a JavaScript array (0-based); outside the array the read is undefined
At(a, i) == IF i >= 0 /\ i < Len(a) THEN a[i + 1] ELSE Undef

InRange(a, i) == i >= 0 /\ i < Len(a)

\* a - b
Sub(a, b) == IF IsNum(a) /\ IsNum(b) THEN Num(a.v - b.v) ELSE NaN

\* a > b, a < b: false as soon as one side is NaN or undefined
Gt(a, b) == IsNum(a) /\ IsNum(b) /\ a.v > b.v
Lt(a, b) == IsNum(a) /\ IsNum(b) /\ a.v < b.v

\* the last element of an array, a[a.length - 1]
Last(a) == At(a, Len(a) - 1)

\* data.map(d => d.close), prices given in whole units
ToNums(prices) == [i \in 1..Len(prices) |-> Num(prices[i] * Scale)]

----------------------------------------------------------------------------
(* Indicator engine: EMA and MACD *)

DefaultFastPeriod == 12
DefaultSlowPeriod == 26
DefaultSignalPeriod == 9

\* one step of the EMA recurrence: (price - prev) * multiplier + prev,
\* multiplier = 2 / (period + 1)
EmaStep(price, prev, p) ==
  IF IsNum(price) /\ IsNum(prev)
    THEN Num(prev.v + (((price.v - prev.v) * 2) \div (p + 1)))
    ELSE NaN

RECURSIVE EmaBuild(_, _, _, _)
EmaBuild(prices, p, i, acc) ==
  IF i >= Len(prices) THEN acc
  ELSE EmaBuild(prices, p, i + 1,
                Append(acc, EmaStep(At(prices, i), At(acc, i - 1), p)))

\* calculateEMAValues: seeded with prices[0], one value per price
calculateEMAValues(prices, p) == EmaBuild(prices, p, 1, <<At(prices, 0)>>)

\* the index of slowEMA that calculateMACD subtracts at index i of fastEMA
MacdSlowIndex(i, fastPeriod, slowPeriod) == i - (fastPeriod - slowPeriod)

\* the MACD line: for (i = slowPeriod - 1; i < fastEMA.length; i++)
MacdLine(fastEMA, slowEMA, fastPeriod, slowPeriod) ==
  [j \in 1..(IF Len(fastEMA) > slowPeriod - 1
               THEN Len(fastEMA) - (slowPeriod - 1) ELSE 0) |->
     Sub(At(fastEMA, (slowPeriod - 1) + (j - 1)),
         At(slowEMA, MacdSlowIndex((slowPeriod - 1) + (j - 1), fastPeriod, slowPeriod)))]

\* the histogram: for (i = signalPeriod - 1; i < macdLine.length; i++)
MacdHistogram(macdLine, signalLine, signalPeriod) ==
  [j \in 1..(IF Len(macdLine) > signalPeriod - 1
               THEN Len(macdLine) - (signalPeriod - 1) ELSE 0) |->
     Sub(At(macdLine, (signalPeriod - 1) + (j - 1)),
         At(signalLine, (j - 1)))]

calculateMACD(data, fastPeriod, slowPeriod, signalPeriod) ==
  IF Len(data) < slowPeriod + signalPeriod
    THEN [status |-> "error", error |-> "Insufficient data for MACD calculation"]
    ELSE
      LET prices == ToNums(data)
          fastEMA == calculateEMAValues(prices, fastPeriod)
          slowEMA == calculateEMAValues(prices, slowPeriod)
          macdLine == MacdLine(fastEMA, slowEMA, fastPeriod, slowPeriod)
          signalLine == calculateEMAValues(macdLine, signalPeriod)
          histogram == MacdHistogram(macdLine, signalLine, signalPeriod)
          currentMACD == Last(macdLine)
          currentSignal == Last(signalLine)
      IN [status |-> "ok",
          macd_line |-> currentMACD,
          signal_line |-> currentSignal,
          histogram |-> Last(histogram),
          signal |-> IF Gt(currentMACD, currentSignal) THEN "bullish" ELSE "bearish",
          fastEMA |-> fastEMA,
          slowEMA |-> slowEMA,
          macdLine |-> macdLine]

----------------------------------------------------------------------------
(* Indicator engine: RSI *)

DefaultRsiPeriod == 14

\* gains[i-1] and losses[i-1] for i = 1 .. data.length - 1
Gains(prices) ==
  [i \in 1..(IF Len(prices) > 0 THEN Len(prices) - 1 ELSE 0) |->
     IF prices[i + 1].v - prices[i].v > 0 THEN Num(prices[i + 1].v - prices[i].v) ELSE Num(0)]

Losses(prices) ==
  [i \in 1..(IF Len(prices) > 0 THEN Len(prices) - 1 ELSE 0) |->
     IF prices[i + 1].v - prices[i].v < 0 THEN Num(prices[i].v - prices[i + 1].v) ELSE Num(0)]

RECURSIVE SumFirst(_, _)
\* a.slice(0, n).reduce((sum, x) => sum + x, 0)
SumFirst(a, n) ==
  IF n <= 0 \/ Len(a) = 0 THEN 0
  ELSE IF n > Len(a) THEN SumFirst(a, Len(a))
  ELSE SumFirst(a, n - 1) + a[n].v

\* avg = (avg * (period - 1) + x) / period
Smooth(avg, x, p) == ((avg * (p - 1)) + x) \div p

\* const rs = avgGain / (avgLoss || 0.01); const rsi = 100 - (100 / (1 + rs));
RsiOf(avgGain, avgLoss) ==
  LET lossOrEps == IF avgLoss = 0 THEN Scale \div 100 ELSE avgLoss
      rs == (avgGain * Scale) \div lossOrEps
  IN Num(100 * Scale - ((100 * Scale * Scale) \div (Scale + rs)))

RECURSIVE RsiBuild(_, _, _, _, _, _, _)
\* for (let i = period; i < gains.length; i++) { ... rsiValues.push(rsi); }
RsiBuild(gains, losses, p, i, avgGain, avgLoss, acc) ==
  IF i >= Len(gains) THEN acc
  ELSE LET g == Smooth(avgGain, At(gains, i).v, p)
           l == Smooth(avgLoss, At(losses, i).v, p)
       IN RsiBuild(gains, losses, p, i + 1, g, l, Append(acc, RsiOf(g, l)))

\* the guard of calculateRSI: the number of candles it asks for
RsiMinCandles(p) == p + 1

\* currentRSI > 70 ? 'overbought' : currentRSI < 30 ? 'oversold' : 'neutral'
RsiSignal(currentRSI) ==
  IF Gt(currentRSI, Num(70 * Scale)) THEN "overbought"
  ELSE IF Lt(currentRSI, Num(30 * Scale)) THEN "oversold" ELSE "neutral"

calculateRSI(data, p) ==
  IF Len(data) < RsiMinCandles(p)
    THEN [status |-> "error", error |-> "Insufficient data for RSI calculation"]
    ELSE
      LET prices == ToNums(data)
          gains == Gains(prices)
          losses == Losses(prices)
          avgGain == SumFirst(gains, p) \div p
          avgLoss == SumFirst(losses, p) \div p
          rsiValues == RsiBuild(gains, losses, p, p, avgGain, avgLoss, <<>>)
          currentRSI == Last(rsiValues)
      IN [status |-> "ok",
          current_value |-> currentRSI,
          signal |-> RsiSignal(currentRSI),
          values |-> Len(rsiValues)]

\* calculateTechnicalIndicators restricted to indicators = ['rsi']: the guard
\* on the series, then calculateRSI inside the per-indicator try/catch
calculateTechnicalIndicatorsRSI(data, p) ==
  IF Len(data) < p + 5
    THEN [status |-> "error", error |-> "Insufficient data for calculation"]
    ELSE calculateRSI(data, p)

----------------------------------------------------------------------------
(* Indicator engine: SMA, EMA, Bollinger Bands and Volume SMA.  A candle      *)
(* series is given as the series of its closes and the series of its         *)
(* volumes, of one length.                                                    *)

\* a.slice(-n): the last n elements; slice(-0) is the whole array
SliceLast(a, n) ==
  IF n = 0 \/ n >= Len(a) THEN a ELSE SubSeq(a, Len(a) - n + 1, Len(a))

RECURSIVE SumSeq(_)
SumSeq(a) == IF Len(a) = 0 THEN 0 ELSE a[1] + SumSeq(Tail(a))

RECURSIVE SumProd(_, _)
SumProd(a, b) ==
  IF Len(a) = 0 \/ Len(b) = 0 THEN 0 ELSE a[1] * b[1] + SumProd(Tail(a), Tail(b))

\* slice.reduce((sum, price) => sum + price, 0) / period over the last
\* period elements, the value the loops of calculateSMA, calculateVolumeSMA
\* and calculateBollingerBands push last
LastWindowMean(values, p) ==
  Num(SumFirst(SubSeq(values, Len(values) - p + 1, Len(values)), p) \div p)

AboveOrBearish(currentPrice, current) ==
  IF Gt(currentPrice, current) THEN "bullish" ELSE "bearish"

calculateSMA(data, p) ==
  IF Len(data) < p
    THEN [status |-> "error", error |-> "Insufficient data for SMA calculation"]
    ELSE
      LET closePrices == ToNums(data)
          currentSMA == LastWindowMean(closePrices, p)
          currentPrice == Last(closePrices)
      IN [status |-> "ok",
          current_value |-> currentSMA,
          current_price |-> currentPrice,
          signal |-> AboveOrBearish(currentPrice, currentSMA)]

\* calculateEMA has no guard on data.length
calculateEMA(data, p) ==
  LET closePrices == ToNums(data)
      emaValues == calculateEMAValues(closePrices, p)
      currentEMA == Last(emaValues)
      currentPrice == Last(closePrices)
  IN [status |-> "ok",
      current_value |-> currentEMA,
      current_price |-> currentPrice,
      signal |-> AboveOrBearish(currentPrice, currentEMA)]

\* The bands are middle +- 2 * sigma over the last period closes.  With
\* P = period * (price - middle) and V = period^2 * sigma^2, both integers,
\* price_position = (price - lower) / (upper - lower) * 100 exceeds 80 when
\* price - middle > 1.2 * sigma and is below 20 when price - middle <
\* -1.2 * sigma; it is NaN, and the signal neutral, when sigma = 0.
calculateBollingerBands(data, p) ==
  IF Len(data) < p
    THEN [status |-> "error",
          error |-> "Insufficient data for Bollinger Bands calculation"]
    ELSE
      LET window == SubSeq(data, Len(data) - p + 1, Len(data))
          total == SumSeq(window)
          P == p * data[Len(data)] - total
          V == p * SumProd(window, window) - total * total
      IN [status |-> "ok",
          middle_band |-> LastWindowMean(ToNums(data), p),
          current_price |-> Last(ToNums(data)),
          signal |-> IF P > 0 /\ 25 * P * P > 36 * V THEN "overbought"
                     ELSE IF P < 0 /\ 25 * P * P > 36 * V THEN "oversold"
                     ELSE "neutral"]

calculateVolumeSMA(candleVolumes, p) ==
  IF Len(candleVolumes) < p
    THEN [status |-> "error",
          error |-> "Insufficient data for Volume SMA calculation"]
    ELSE
      LET vols == ToNums(candleVolumes)
          currentVolume == Last(vols)
          currentVolumeSMA == LastWindowMean(vols, p)
      IN [status |-> "ok",
          current_volume |-> currentVolume,
          volume_sma |-> currentVolumeSMA,
          signal |-> IF currentVolume.v * 2 > currentVolumeSMA.v * 3 THEN "high"
                     ELSE IF currentVolume.v * 2 < currentVolumeSMA.v THEN "low"
                     ELSE "normal"]

\* the indicator names of the switch in calculateTechnicalIndicators
IndicatorNames == {"rsi", "macd", "sma", "ema", "bollinger", "volume_sma"}

\* one case of that switch; MACD is always called with its default periods
IndicatorCase(name, data, candleVolumes, p) ==
  CASE name = "rsi" -> calculateRSI(data, p)
    [] name = "macd" -> calculateMACD(data, DefaultFastPeriod, DefaultSlowPeriod,
                                      DefaultSignalPeriod)
    [] name = "sma" -> calculateSMA(data, p)
    [] name = "ema" -> calculateEMA(data, p)
    [] name = "bollinger" -> calculateBollingerBands(data, p)
    [] name = "volume_sma" -> calculateVolumeSMA(candleVolumes, p)

----------------------------------------------------------------------------
(* Signal aggregator.  Weights are in hundredths (0.3 is 30); a share of   *)
(* the total weight is the exact fraction n / d, and NaN when d = 0.       *)

Strategies == {"conservative", "moderate", "aggressive"}

\* thresholds[strategy] || 60
getSignalThreshold(s) ==
  CASE s = "conservative" -> 70
    [] s = "moderate" -> 60
    [] s = "aggressive" -> 55
    [] OTHER -> 60

IsBullish(sig) == sig.signal = "bullish" \/ sig.signal = "buy"
IsBearish(sig) == sig.signal = "bearish" \/ sig.signal = "sell"

RECURSIVE Scores(_, _, _)
\* signals.forEach: totalWeight, bullishScore and bearishScore
Scores(sigs, i, acc) ==
  IF i > Len(sigs) THEN acc
  ELSE Scores(sigs, i + 1,
         [total |-> acc.total + sigs[i].weight,
          bullish |-> acc.bullish + (IF IsBullish(sigs[i]) THEN sigs[i].weight ELSE 0),
          bearish |-> acc.bearish + (IF ~IsBullish(sigs[i]) /\ IsBearish(sigs[i])
                                       THEN sigs[i].weight ELSE 0)])

\* (score / totalWeight) * 100 as the fraction n / d
Percentage(score, totalWeight) == [n |-> score * 100, d |-> totalWeight]

\* percentage > threshold; 0 / 0 is NaN and compares false
ExceedsOrEquals(pct, threshold) == pct.d > 0 /\ pct.n >= threshold * pct.d
Exceeds(pct, threshold) == pct.d > 0 /\ pct.n > threshold * pct.d

calculateOverallSignal(sigs, s) ==
  LET sc == Scores(sigs, 1, [total |-> 0, bullish |-> 0, bearish |-> 0])
      bullishPercentage == Percentage(sc.bullish, sc.total)
      bearishPercentage == Percentage(sc.bearish, sc.total)
      threshold == getSignalThreshold(s)
  IN [status |-> "ok",
      signal |-> IF Exceeds(bullishPercentage, threshold) THEN "buy"
                 ELSE IF Exceeds(bearishPercentage, threshold) THEN "sell"
                 ELSE "hold",
      bullishPercentage |-> bullishPercentage,
      bearishPercentage |-> bearishPercentage]

----------------------------------------------------------------------------
(* The generate_trading_signals computation after its two fetches: the      *)
(* indicators of calculateTechnicalIndicators, the trend and volume labels   *)
(* of analyzePriceAction, the signal list and its aggregation.               *)

DefaultPeriod == 14
PriceActionMinCandles == 20

\* weights[strategy]?.[indicator] || 0.2
getIndicatorWeight(name, s) ==
  LET weights ==
        [conservative |-> [rsi |-> 30, macd |-> 40, sma |-> 30, ema |-> 20, bollinger |-> 10],
         moderate |-> [rsi |-> 25, macd |-> 35, sma |-> 20, ema |-> 25, bollinger |-> 15],
         aggressive |-> [rsi |-> 20, macd |-> 30, sma |-> 15, ema |-> 30, bollinger |-> 20]]
  IN IF s \in DOMAIN weights /\ name \in DOMAIN weights[s] THEN weights[s][name] ELSE 20

\* a trend weight of 0.9 in place of 0.4 for the conservative profile
getTrendWeightHeavy(s) ==
  CASE s = "conservative" -> 90
    [] s = "moderate" -> 30
    [] s = "aggressive" -> 20
    [] OTHER -> 30

getTrendWeight(s) ==
  CASE s = "conservative" -> 40
    [] s = "moderate" -> 30
    [] s = "aggressive" -> 20
    [] OTHER -> 30

getVolumeWeight(s) ==
  CASE s = "conservative" -> 20
    [] s = "moderate" -> 20
    [] s = "aggressive" -> 30
    [] OTHER -> 20

\* the mean of the second half against the mean of the first half; with
\* fewer than 2 prices a half is empty, its mean NaN, the result 'sideways'
determineTrendDirection(prices) ==
  LET half == Len(prices) \div 2
      rest == Len(prices) - half
      firstSum == SumSeq(SubSeq(prices, 1, half))
      secondSum == SumSeq(SubSeq(prices, half + 1, Len(prices)))
  IN IF half = 0 THEN "sideways"
     ELSE IF 100 * secondSum * half > 105 * firstSum * rest THEN "bullish"
     ELSE IF 100 * secondSum * half < 95 * firstSum * rest THEN "bearish"
     ELSE "sideways"

\* change = (last - first) / first against 0.02 and -0.02, first > 0
calculateTrendDirection(values) ==
  IF Len(values) < 2 THEN "unknown"
  ELSE LET first == values[1]
           last == values[Len(values)]
       IN IF 100 * (last - first) > 2 * first THEN "up"
          ELSE IF 100 * (last - first) < -2 * first THEN "down"
          ELSE "sideways"

\* calculateTechnicalIndicators after the fetch: the guard, then every
\* requested indicator inside its own try/catch, which turns a throw into
\* the entry {error: 'Calculation failed: ...'}
technicalIndicators(data, candleVolumes, indicators, p) ==
  IF Len(data) < p + 5
    THEN [status |-> "error", error |-> "Insufficient data for calculation"]
    ELSE [status |-> "ok",
          indicators |-> [i \in 1..Len(indicators) |->
                            IndicatorCase(indicators[i], data, candleVolumes, p)]]

RECURSIVE generateIndicatorSignals(_, _, _, _)
\* Object.entries(indicators).forEach: a signal for every entry that has a
\* signal and no error
generateIndicatorSignals(names, entries, s, i) ==
  IF i > Len(names) THEN <<>>
  ELSE (IF entries[i].status = "ok"
          THEN <<[indicator |-> names[i], signal |-> entries[i].signal,
                  weight |-> getIndicatorWeight(names[i], s)]>>
          ELSE <<>>)
       \o generateIndicatorSignals(names, entries, s, i + 1)

TradingIndicators == <<"rsi", "macd", "sma", "ema", "bollinger">>

tradingSignals(data, candleVolumes, s) ==
  LET technicalData ==
        technicalIndicators(data, candleVolumes, TradingIndicators, DefaultPeriod)
  IN IF technicalData.status = "error"
       THEN [status |-> "error", error |-> "Failed to generate trading signals"]
     ELSE IF Len(data) < PriceActionMinCandles
       THEN [status |-> "error", error |-> "Failed to generate trading signals"]
     ELSE
       LET indicatorSignals ==
             generateIndicatorSignals(TradingIndicators, technicalData.indicators, s, 1)
           trendSignals ==
             <<[indicator |-> "trend_analysis",
                signal |-> determineTrendDirection(data),
                weight |-> getTrendWeight(s)]>>
           volumeSignals ==
             <<[indicator |-> "volume_analysis",
                signal |-> calculateTrendDirection(SliceLast(candleVolumes, 10)),
                weight |-> getVolumeWeight(s)]>>
           all == indicatorSignals \o trendSignals \o volumeSignals
           overallAssessment == calculateOverallSignal(all, s)
       IN [status |-> "ok",
           signals |-> all,
           overall_signal |-> overallAssessment.signal,
           bullishPercentage |-> overallAssessment.bullishPercentage,
           bearishPercentage |-> overallAssessment.bearishPercentage]

----------------------------------------------------------------------------
(* Risk metrics calculator.  Returns are fixed-point integers (units of    *)
(* 1/Scale).  Beta is an exact fraction [n, d] in lowest terms, d > 0.  A  *)
(* correlation is [num, ss1, ss2], standing for num / sqrt(ss1 * ss2),     *)
(* with the three sums taken over n * (r - mean), which cancels in the     *)
(* ratio; the value 0 is always written CorrZero.                          *)

RECURSIVE Gcd(_, _)
Gcd(a, b) == IF b = 0 THEN a ELSE Gcd(b, a % b)

Abs(x) == IF x < 0 THEN -x ELSE x

Frac(n, d) ==
  LET g == Gcd(Abs(n), Abs(d))
      sgn == IF d < 0 THEN -1 ELSE 1
  IN [n |-> sgn * (n \div g), d |-> sgn * (d \div g)]

FracDiv(a, b) == Frac(a.n * b.d, a.d * b.n)

One == [n |-> 1, d |-> 1]

CorrZero == [num |-> 0, ss1 |-> 1, ss2 |-> 1]

Min(a, b) == IF a < b THEN a ELSE b

\* for (let i = 1; i < data.length; i++) returns.push((c[i] - c[i-1]) / c[i-1])
calculateReturns(data) ==
  [i \in 1..(IF Len(data) > 0 THEN Len(data) - 1 ELSE 0) |->
     ((data[i + 1] - data[i]) * Scale) \div data[i]]

\* population covariance of two series of one length n
calculateCovariance(a, b) ==
  Frac(Len(a) * SumProd(a, b) - SumSeq(a) * SumSeq(b), Len(a) * Len(a))

\* population variance
calculateVariance(a) ==
  Frac(Len(a) * SumProd(a, a) - SumSeq(a) * SumSeq(a), Len(a) * Len(a))

\* calculateBeta after its guard: slice both to minLength, covariance / variance
BetaOfAligned(returns, benchmarkReturns) ==
  LET minLength == Min(Len(returns), Len(benchmarkReturns))
      assetReturns == SliceLast(returns, minLength)
      marketReturns == SliceLast(benchmarkReturns, minLength)
      covariance == calculateCovariance(assetReturns, marketReturns)
      marketVariance == calculateVariance(marketReturns)
  IN IF marketVariance.n = 0 THEN One ELSE FracDiv(covariance, marketVariance)

\* the guard of calculateBeta and of calculateCorrelation: return the default
BetaGuard(returns, benchmarkReturns) ==
  Len(returns) # Len(benchmarkReturns) \/ Len(returns) < 2

calculateBeta(returns, benchmarkReturns) ==
  IF BetaGuard(returns, benchmarkReturns) THEN One
  ELSE BetaOfAligned(returns, benchmarkReturns)

\* n * (r[i] - mean) for every element
Centered(a) == [i \in 1..Len(a) |-> Len(a) * a[i] - SumSeq(a)]

\* calculateCorrelation after its guard
CorrelationOfAlignedNegated(returns1, returns2) ==
  LET d1 == Centered(returns1)
      d2 == Centered(returns2)
  IN IF SumProd(d1, d1) = 0 \/ SumProd(d2, d2) = 0 \/ SumProd(d1, d2) = 0 THEN CorrZero
     ELSE [num |-> -SumProd(d1, d2), ss1 |-> SumProd(d1, d1), ss2 |-> SumProd(d2, d2)]
CorrelationOfAligned(returns1, returns2) ==
  LET minLength == Min(Len(returns1), Len(returns2))
      d1 == Centered(SliceLast(returns1, minLength))
      d2 == Centered(SliceLast(returns2, minLength))
      numerator == SumProd(d1, d2)
      sumSquares1 == SumProd(d1, d1)
      sumSquares2 == SumProd(d2, d2)
  IN IF sumSquares1 = 0 \/ sumSquares2 = 0 \/ numerator = 0 THEN CorrZero
     ELSE [num |-> numerator, ss1 |-> sumSquares1, ss2 |-> sumSquares2]

calculateCorrelation(returns1, returns2) ==
  IF BetaGuard(returns1, returns2) THEN CorrZero
  ELSE CorrelationOfAligned(returns1, returns2)

----------------------------------------------------------------------------
(* Statistics of HistoricalAnalysisTools.  A candle series is the sequence  *)
(* of its closes; the date of the candle at index i (from 0) is i, and the  *)
(* empty string that stands for "no date" is EmptyDate.  A percentage or    *)
(* ratio is an exact fraction [n, d], d > 0.                                *)

EmptyDate == -1

\* maxDrawdownStart = data[peakIndex].date; maxDrawdownEnd = data[troughIndex].date
DrawdownDatesSwapped(peakIndex, troughIndex) ==
  [start_date |-> troughIndex, end_date |-> peakIndex]
DrawdownDates(peakIndex, troughIndex) ==
  [start_date |-> peakIndex, end_date |-> troughIndex]

RECURSIVE DrawdownLoop(_, _, _)
\* the loop of calculateMaxDrawdown from index i on; acc holds its variables
DrawdownLoop(prices, i, acc) ==
  IF i >= Len(prices) THEN acc
  ELSE
    LET price == prices[i + 1]
        newPeak == price > acc.peak
        peak == IF newPeak THEN price ELSE acc.peak
        peakIndex == IF newPeak THEN i ELSE acc.peakIndex
        drawdown == [n |-> peak - price, d |-> peak]
        deeper == drawdown.n * acc.maxDrawdown.d > acc.maxDrawdown.n * drawdown.d
        dates == DrawdownDates(peakIndex, i)
    IN DrawdownLoop(prices, i + 1,
         [maxDrawdown |-> IF deeper THEN drawdown ELSE acc.maxDrawdown,
          peak |-> peak,
          peakIndex |-> peakIndex,
          troughIndex |-> IF deeper THEN i ELSE acc.troughIndex,
          maxDrawdownStart |-> IF deeper THEN dates.start_date ELSE acc.maxDrawdownStart,
          maxDrawdownEnd |-> IF deeper THEN dates.end_date ELSE acc.maxDrawdownEnd])

\* calculateMaxDrawdown on a series of at least one candle
calculateMaxDrawdown(prices) ==
  LET r == DrawdownLoop(prices, 1,
             [maxDrawdown |-> [n |-> 0, d |-> 1], peak |-> prices[1], peakIndex |-> 0,
              troughIndex |-> 0, maxDrawdownStart |-> EmptyDate,
              maxDrawdownEnd |-> EmptyDate])
  IN [max_drawdown_percent |-> [n |-> r.maxDrawdown.n * 100, d |-> r.maxDrawdown.d],
      peak_price |-> r.peak,
      trough_price |-> prices[r.troughIndex + 1],
      start_date |-> r.maxDrawdownStart,
      end_date |-> r.maxDrawdownEnd,
      duration_days |-> r.troughIndex - r.peakIndex]

(* Returns given to the functions below are integers in thousandths       *)
(* (0.015 is 15), and so are the percentages they report (-3% is -3000).    *)
(* Where the rounding of a double changes an array index or a comparison,   *)
(* the rounding is modelled: OneMinus and RoundTripDrift hold what IEEE     *)
(* double arithmetic yields for the values explored.                        *)

\* a number whose value is not modelled, and the results of a division by 0
Finite == [t |-> "finite", v |-> 0]
Infinity(sign) == [t |-> "infinity", v |-> sign]

RECURSIVE InsertSorted(_, _)
InsertSorted(x, sorted) ==
  IF Len(sorted) = 0 THEN <<x>>
  ELSE IF x <= Head(sorted) THEN <<x>> \o sorted
  ELSE <<Head(sorted)>> \o InsertSorted(x, Tail(sorted))

RECURSIVE SortAscending(_)
\* [...returns].sort((a, b) => a - b)
SortAscending(a) ==
  IF Len(a) = 0 THEN <<>> ELSE InsertSorted(Head(a), SortAscending(Tail(a)))

\* the confidence levels explored, in ascending order
ConfidenceLevels == <<"1e-17", "0.5", "0.8", "0.95", "0.99">>

\* the double 1 - confidence: n / d, err telling whether the double lies
\* below (-1) or above (1) that fraction or is exactly it (0);
\* 1 - 1e-17 rounds to 1
OneMinus ==
  [c \in {ConfidenceLevels[i] : i \in DOMAIN ConfidenceLevels} |->
     CASE c = "1e-17" -> [n |-> 1, d |-> 1, err |-> 0]
       [] c = "0.5" -> [n |-> 1, d |-> 2, err |-> 0]
       [] c = "0.8" -> [n |-> 1, d |-> 5, err |-> -1]
       [] c = "0.95" -> [n |-> 1, d |-> 20, err |-> 1]
       [] c = "0.99" -> [n |-> 1, d |-> 100, err |-> 1]]

\* Math.floor((1 - confidence) * length): a product that would be a whole
\* number comes out just below it when 1 - confidence was rounded down
VaRIndex(confidence, length) ==
  LET m == OneMinus[confidence]
      q == (m.n * length) \div m.d
  IN IF length > 0 /\ (m.n * length) % m.d = 0 /\ m.err < 0 THEN q - 1 ELSE q

\* The arrays calculateVaR works on, after its sort: Array.prototype.sort
\* orders the array it is called on in place and returns that same array.
\* When it is called on the caller's array itself both names hold the
\* ordered array ...
VaRArraysSortedInPlace(returns) ==
  LET sorted == SortAscending(returns)
  IN [returns |-> sorted, sortedReturns |-> sorted]

\* ... calculateVaR calls it on the copy [...returns]
VaRArrays(returns) ==
  LET copy == returns
  IN [returns |-> returns, sortedReturns |-> SortAscending(copy)]

calculateVaR(returns, confidence) ==
  LET sortedReturns == VaRArrays(returns).sortedReturns
      index == VaRIndex(confidence, Len(sortedReturns))
  IN IF index < Len(sortedReturns) THEN Num(sortedReturns[index + 1] * 100) ELSE NaN

\* (x * 100) / 100 against x for a return x of at most 30 thousandths:
\* -1 when the round trip ends below x, 1 when above, 0 when it is x again
RoundTripDrift(x) ==
  IF Abs(x) \in {7, 13, 14, 26, 27, 28, 29} THEN (IF x < 0 THEN -1 ELSE 1) ELSE 0

\* calculateExpectedShortfall; the result is NaN or the fraction n / d
calculateExpectedShortfall(returns, confidence) ==
  LET var == calculateVaR(returns, confidence)
  IN IF ~IsNum(var) THEN [t |-> "nan", n |-> 0, d |-> 1, fallback |-> TRUE]
     ELSE
       LET x == var.v \div 100
           drift == RoundTripDrift(x)
           exceedances == SelectSeq(returns, LAMBDA ret : ret < x \/ (ret = x /\ drift >= 0))
       IN IF Len(exceedances) = 0
            THEN [t |-> "num", n |-> var.v, d |-> 1, fallback |-> TRUE]
            ELSE [t |-> "num", n |-> SumSeq(exceedances) * 100, d |-> Len(exceedances),
                  fallback |-> FALSE]

\* calculateSharpeRatio: 0 when the volatility is 0
calculateSharpeRatio(returns) ==
  IF Len(returns) = 0 THEN NaN
  ELSE IF calculateVariance(returns).n = 0 THEN Num(0) ELSE Finite

\* sharpe_ratio as calculateRiskMetrics computes it:
\* (annualizedReturn - risk_free_rate) / annualizedVolatility, where
\* annualizedReturn = ((1 + avgReturn)^365 - 1) * 100 is 0 for a zero
\* average, below 0 for a negative one and at least 36500 * avgReturn for a
\* positive one; x / 0 is Infinity with the sign of x, and 0 / 0 is NaN
riskSharpeRatio(returns, risk_free_rate) ==
  LET sum == SumSeq(returns)
      numeratorSign ==
        CASE sum = 0 -> (IF risk_free_rate > 0 THEN -1 ELSE IF risk_free_rate < 0 THEN 1 ELSE 0)
          [] sum < 0 /\ risk_free_rate >= 0 -> -1
          [] sum > 0 /\ 36500 * sum > risk_free_rate * Scale * Len(returns) -> 1
  IN IF calculateVariance(returns).n # 0 THEN Finite
     ELSE IF numeratorSign = 0 THEN NaN
     ELSE Infinity(numeratorSign)

\* the fewest candles calculateRiskMetrics goes on with
RiskMinCandles == 10

\* confidence_levels = [0.95, 0.99]
DefaultConfidenceLevels == {"0.95", "0.99"}

\* calculateRiskMetrics after the cache miss and the fetch of the asset's
\* candles: the guard, the returns, the value at risk, the Sharpe ratio, the
\* maximum drawdown and the benchmark block in its try/catch
calculateRiskMetrics(historicalData, benchmark, risk_free_rate) ==
  IF Len(historicalData) < RiskMinCandles
    THEN [status |-> "error", error |-> "Insufficient data for risk calculations"]
    ELSE
      LET computed == calculateReturns(historicalData)
          \* the returns array as the VaR loop leaves it to the later metrics
          returns == VaRArrays(computed).returns
          benchmarkReturns == calculateReturns(benchmark.closes)
          withBenchmark == benchmark.fetch = "ok"
      IN [status |-> "ok",
          data_points |-> Len(historicalData),
          value_at_risk |-> [c \in DefaultConfidenceLevels |-> calculateVaR(computed, c)],
          returns |-> returns,
          sharpe_ratio |-> riskSharpeRatio(returns, risk_free_rate),
          max_drawdown |-> calculateMaxDrawdown(historicalData),
          hasBenchmark |-> withBenchmark,
          benchmarkReturns |-> IF withBenchmark THEN benchmarkReturns ELSE <<>>,
          beta |-> IF withBenchmark THEN calculateBeta(returns, benchmarkReturns) ELSE One,
          correlation |-> IF withBenchmark
                            THEN calculateCorrelation(returns, benchmarkReturns)
                            ELSE CorrZero]

----------------------------------------------------------------------------
(* API tiers: src/config/api-tiers.ts *)

ApiTier == {"free", "startup", "standard", "professional", "enterprise"}

HISTORICAL_OHLCV == "/v1/cryptocurrency/ohlcv/historical"
HISTORICAL_QUOTES == "/v2/cryptocurrency/quotes/historical"
TRENDING_LATEST == "/v1/cryptocurrency/trending/latest"
TRENDING_GAINERS_LOSERS == "/v1/cryptocurrency/trending/gainers-losers"
CRYPTOCURRENCY_LISTINGS_LATEST == "/v1/cryptocurrency/listings/latest"
CRYPTOCURRENCY_QUOTES_LATEST == "/v2/cryptocurrency/quotes/latest"
GLOBAL_METRICS_QUOTES_LATEST == "/v1/global-metrics/quotes/latest"

PREMIUM_ENDPOINTS ==
  { HISTORICAL_OHLCV, HISTORICAL_QUOTES, TRENDING_LATEST, TRENDING_GAINERS_LOSERS,
    "/v2/cryptocurrency/price-performance-stats",
    "/v1/exchange/market-pairs/latest",
    "/v1/exchange/listings/latest" }

FREE_TIER_ENDPOINTS ==
  { CRYPTOCURRENCY_LISTINGS_LATEST, CRYPTOCURRENCY_QUOTES_LATEST,
    "/v2/cryptocurrency/info",
    "/v1/cryptocurrency/map",
    GLOBAL_METRICS_QUOTES_LATEST,
    "/v1/tools/price-conversion" }

\* only the free and the startup tier have an entry
API_TIER_CONFIG ==
  [t \in {"free", "startup"} |->
     IF t = "free"
     THEN [availableEndpoints |-> FREE_TIER_ENDPOINTS,
           blockedEndpoints |-> PREMIUM_ENDPOINTS]
     ELSE [availableEndpoints |-> FREE_TIER_ENDPOINTS \cup PREMIUM_ENDPOINTS,
           blockedEndpoints |-> {}]]

TOOL_ENDPOINT_MAPPING ==
  [n \in { "get_crypto_price", "get_multiple_prices", "get_top_cryptocurrencies",
           "search_cryptocurrencies", "get_market_overview", "get_market_dominance",
           "get_trending_cryptocurrencies", "get_gainers_losers",
           "calculate_technical_indicators", "analyze_price_action",
           "generate_trading_signals", "compare_technical_strength",
           "get_historical_data", "analyze_price_performance",
           "compare_historical_performance", "analyze_market_cycles",
           "calculate_risk_metrics", "analyze_altcoin_season" } |->
     CASE n \in {"get_crypto_price", "get_multiple_prices"} ->
            {CRYPTOCURRENCY_QUOTES_LATEST}
       [] n \in {"get_top_cryptocurrencies", "search_cryptocurrencies",
                 "analyze_altcoin_season"} ->
            {CRYPTOCURRENCY_LISTINGS_LATEST}
       [] n = "get_market_overview" ->
            {GLOBAL_METRICS_QUOTES_LATEST, CRYPTOCURRENCY_LISTINGS_LATEST}
       [] n = "get_market_dominance" -> {GLOBAL_METRICS_QUOTES_LATEST}
       [] n = "get_trending_cryptocurrencies" -> {TRENDING_LATEST}
       [] n = "get_gainers_losers" -> {TRENDING_GAINERS_LOSERS}
       [] n \in {"calculate_technical_indicators", "analyze_price_action",
                 "generate_trading_signals", "compare_technical_strength",
                 "get_historical_data", "analyze_market_cycles"} ->
            {HISTORICAL_OHLCV}
       [] n \in {"analyze_price_performance", "compare_historical_performance",
                 "calculate_risk_metrics"} ->
            {HISTORICAL_QUOTES}]

\* ApiTierManager.config as the constructor sets it: the tier's entry, or the
\* free tier's when the tier has none
TierConfig(t) ==
  IF t \in DOMAIN API_TIER_CONFIG THEN API_TIER_CONFIG[t] ELSE API_TIER_CONFIG["free"]

isEndpointAvailable(endpoint, t) == endpoint \notin TierConfig(t).blockedEndpoints

isToolAvailable(toolName, t) ==
  IF toolName \notin DOMAIN TOOL_ENDPOINT_MAPPING THEN TRUE
  ELSE \A endpoint \in TOOL_ENDPOINT_MAPPING[toolName] : isEndpointAvailable(endpoint, t)

generateUnavailableToolError(toolName, t) ==
  [text |-> "requires a paid CoinMarketCap API plan", tool |-> toolName, currentTier |-> t]

----------------------------------------------------------------------------
(* The tools the server defines.                                           *)
(*                                                                         *)
(* The sources hold two implementations of each of the classes             *)
(* MarketMetricsTools, TechnicalAnalysisTools and HistoricalAnalysisTools  *)
(* that the server imports: the analysis tools and the raw-data tools.     *)
(* Which of them a build wires in is a choice of the initial state:        *)
(* toolset = "analysis" or toolset = "raw".                                *)

Toolsets == {"analysis", "raw"}

PriceDataToolNames ==
  {"get_crypto_price", "get_multiple_prices", "get_top_cryptocurrencies",
   "search_cryptocurrencies"}

MarketMetricsToolNames(b) ==
  IF b = "analysis"
  THEN {"get_market_overview", "get_market_dominance", "analyze_altcoin_season",
        "get_trending_cryptocurrencies", "get_gainers_losers"}
  ELSE {"get_market_overview", "get_market_dominance", "get_trending_cryptocurrencies"}

TechnicalAnalysisToolNames(b) ==
  IF b = "analysis"
  THEN {"calculate_technical_indicators", "analyze_price_action",
        "generate_trading_signals", "compare_technical_strength"}
  ELSE {"get_technical_data", "get_price_data"}

HistoricalAnalysisToolNames(b) ==
  IF b = "analysis"
  THEN {"get_historical_data", "analyze_price_performance",
        "compare_historical_performance", "analyze_market_cycles",
        "calculate_risk_metrics"}
  ELSE {"get_historical_data", "get_price_history", "compare_historical_data"}

serverManagementTools ==
  {"get_server_info", "get_cache_stats", "get_rate_limit_status", "get_api_tier_status"}

allTools(b) ==
  PriceDataToolNames \cup MarketMetricsToolNames(b) \cup TechnicalAnalysisToolNames(b)
    \cup HistoricalAnalysisToolNames(b) \cup serverManagementTools

----------------------------------------------------------------------------
(* One tools/call request.                                                 *)
(*                                                                         *)
(* A handler runs on a context x = [cache, sent, ok, cacheUsed]: the keys  *)
(* the cache holds, the endpoints requested from the provider so far, ok   *)
(* = FALSE once an error is being thrown, and whether the cache was        *)
(* consulted.  The environment of a call is its fault f: "none",           *)
(* "bad_data" (the provider answers with too little or malformed data, so  *)
(* that processing it throws), "rate_limited" (the client's rate limit     *)
(* check throws before a request is sent), or an endpoint (the provider    *)
(* rejects requests to it).                                                *)
(*                                                                         *)
(* Tools are called for one symbol with their default arguments, except    *)
(* get_market_overview of the analysis tools, whose two flags are explored.  The cache never     *)
(* fills: it holds at most a handful of keys against a limit of 1000.      *)

Faults ==
  {"none", "bad_data", "rate_limited"}
    \cup { CRYPTOCURRENCY_QUOTES_LATEST, CRYPTOCURRENCY_LISTINGS_LATEST,
           GLOBAL_METRICS_QUOTES_LATEST, TRENDING_LATEST, TRENDING_GAINERS_LOSERS,
           HISTORICAL_OHLCV }

\* a flag argument as the request gives it: left out, or false (a flag given
\* as true reads as one left out)
Flags == {"undefined", "false"}

NoArgs == [include_trending |-> "undefined", include_gainers_losers |-> "undefined"]

Arguments == [include_trending : Flags, include_gainers_losers : Flags]

\* the arguments explored are flags, which sanitizeInput returns as they are
sanitizeInput(input) == input

\* destructuring with the default true
FlagOrTrue(flag) == flag # "false"

\* JSON text of a boolean parameter
BoolText(b) == IF b THEN "true" ELSE "false"

\* method and parameters in a fixed (sorted) order of keys
generateCacheKey(method, params) == [method |-> method, params |-> params]

\* now is the instant at which the call arrives (what new Date() reads)
NewContext(c, at) ==
  [cache |-> c, sent |-> {}, ok |-> TRUE, cacheUsed |-> FALSE, now |-> at]

cacheGet(x) == [x EXCEPT !.cacheUsed = TRUE]

cacheSet(x, key) == [x EXCEPT !.cache = @ \cup {key}, !.cacheUsed = TRUE]

Throw(x) == [x EXCEPT !.ok = FALSE]

\* catch (error) { log } : the error is swallowed
Caught(x) == [x EXCEPT !.ok = TRUE]

\* CoinMarketCapClient.get behind the request interceptor
clientGet(x, endpoint, f) ==
  IF f = "rate_limited" THEN Throw(x)
  ELSE [x EXCEPT !.sent = @ \cup {endpoint}, !.ok = (f # endpoint)]

RECURSIVE RequestAll(_, _, _)
\* the requests of a handler in order, up to the first that throws
RequestAll(x, endpoints, f) ==
  IF Len(endpoints) = 0 THEN x
  ELSE LET r == clientGet(x, Head(endpoints), f)
       IN IF r.ok THEN RequestAll(r, Tail(endpoints), f) ELSE r

\* the common shape of a handler: cached result, else the required requests,
\* processing of the answers, and the result stored
FetchAndCache(x, key, endpoints, f) ==
  IF key \in x.cache THEN cacheGet(x)
  ELSE LET r == RequestAll(cacheGet(x), endpoints, f)
       IN IF ~r.ok THEN r
          ELSE IF f = "bad_data" THEN Throw(r)
          ELSE cacheSet(r, key)

(* PriceDataTools *)

getCryptoPrice(x, f) ==
  FetchAndCache(x, generateCacheKey("crypto_price", <<"BTC", "USD">>),
                <<CRYPTOCURRENCY_QUOTES_LATEST>>, f)

getMultiplePrices(x, f) ==
  FetchAndCache(x, generateCacheKey("multiple_prices", <<"BTC,ETH", "USD", "market_cap">>),
                <<CRYPTOCURRENCY_QUOTES_LATEST>>, f)

getTopCryptocurrencies(x, f) ==
  FetchAndCache(x, generateCacheKey("top_cryptocurrencies", <<"defaults">>),
                <<CRYPTOCURRENCY_LISTINGS_LATEST>>, f)

searchCryptocurrencies(x, f) ==
  FetchAndCache(x, generateCacheKey("search_cryptocurrencies", <<"bitcoin", "10", "USD">>),
                <<CRYPTOCURRENCY_LISTINGS_LATEST>>, f)

(* MarketMetricsTools *)

getMarketOverview(x, args, f) ==
  LET include_trending == FlagOrTrue(args.include_trending)
      include_gainers_losers == FlagOrTrue(args.include_gainers_losers)
      cacheKey == generateCacheKey("market_overview",
                    <<"USD", BoolText(include_trending), BoolText(include_gainers_losers)>>)
  IN IF cacheKey \in x.cache THEN cacheGet(x)
     ELSE LET g == clientGet(cacheGet(x), GLOBAL_METRICS_QUOTES_LATEST, f)
              t == IF include_trending
                   THEN Caught(clientGet(g, TRENDING_LATEST, f))
                   ELSE g
              l == IF include_gainers_losers
                   THEN Caught(clientGet(t, TRENDING_GAINERS_LOSERS, f))
                   ELSE t
          IN IF ~g.ok THEN g
             ELSE IF f = "bad_data" THEN Throw(g)
             ELSE cacheSet(l, cacheKey)

getMarketDominance(x, f) ==
  FetchAndCache(x, generateCacheKey("market_dominance", <<"USD", "true">>),
                <<GLOBAL_METRICS_QUOTES_LATEST>>, f)

analyzeAltcoinSeason(x, f) ==
  FetchAndCache(x, generateCacheKey("altcoin_season_analysis", <<"defaults">>),
                <<GLOBAL_METRICS_QUOTES_LATEST, CRYPTOCURRENCY_LISTINGS_LATEST>>, f)

getTrendingCryptocurrencies(x, f) ==
  FetchAndCache(x, generateCacheKey("trending_cryptocurrencies", <<"10", "24h", "USD">>),
                <<TRENDING_LATEST>>, f)

getGainersLosers(x, f) ==
  FetchAndCache(x, generateCacheKey("gainers_losers", <<"defaults">>),
                <<TRENDING_GAINERS_LOSERS>>, f)

(* TechnicalAnalysisTools *)

\* the OHLCV series of the symbol, itself cached for an hour
getHistoricalData(x, timeframe, f) ==
  LET cacheKey == generateCacheKey("historical_ohlcv", <<"BTC", timeframe>>)
  IN IF cacheKey \in x.cache THEN cacheGet(x)
     ELSE LET r == clientGet(cacheGet(x), HISTORICAL_OHLCV, f)
          IN IF r.ok THEN cacheSet(r, cacheKey) ELSE r

calculateTechnicalIndicators(x, indicators, timeframe, f) ==
  LET cacheKey == generateCacheKey("technical_indicators", <<"BTC", indicators, "14", timeframe>>)
  IN IF cacheKey \in x.cache THEN cacheGet(x)
     ELSE LET r == getHistoricalData(cacheGet(x), timeframe, f)
          IN IF ~r.ok THEN r
             ELSE IF f = "bad_data" THEN Throw(r)
             ELSE cacheSet(r, cacheKey)

analyzePriceAction(x, timeframe, f) ==
  LET cacheKey == generateCacheKey("price_action_analysis", <<"BTC", timeframe, "true", "true">>)
  IN IF cacheKey \in x.cache THEN cacheGet(x)
     ELSE LET r == getHistoricalData(cacheGet(x), timeframe, f)
          IN IF ~r.ok THEN r
             ELSE IF f = "bad_data" THEN Throw(r)
             ELSE cacheSet(r, cacheKey)

generateTradingSignals(x, f) ==
  LET cacheKey == generateCacheKey("trading_signals", <<"BTC", "moderate", "7d", "true">>)
  IN IF cacheKey \in x.cache THEN cacheGet(x)
     ELSE LET technicalData ==
                calculateTechnicalIndicators(cacheGet(x), "rsi,macd,sma,ema,bollinger", "7d", f)
              priceActionData == analyzePriceAction(technicalData, "7d", f)
          IN IF ~technicalData.ok THEN technicalData
             ELSE IF ~priceActionData.ok THEN priceActionData
             ELSE cacheSet(priceActionData, cacheKey)

compareTechnicalStrength(x, f) ==
  LET cacheKey == generateCacheKey("technical_strength_comparison", <<"BTC", "rsi,momentum,trend_strength", "30d">>)
  IN IF cacheKey \in x.cache THEN cacheGet(x)
     ELSE LET technicalData ==
                calculateTechnicalIndicators(cacheGet(x), "rsi,macd,sma,ema", "30d", f)
              priceActionData == analyzePriceAction(technicalData, "30d", f)
              symbolDone == IF technicalData.ok THEN Caught(priceActionData)
                            ELSE Caught(technicalData)
          IN cacheSet(symbolDone, cacheKey)

(* HistoricalAnalysisTools *)

getHistoricalDataForPeriod(x, f) == clientGet(x, HISTORICAL_OHLCV, f)

getHistoricalDataTool(x, f) ==
  FetchAndCache(x, generateCacheKey("historical_data", <<"BTC", "1d", "true">>),
                <<HISTORICAL_OHLCV>>, f)

analyzePricePerformance(x, f) ==
  LET cacheKey == generateCacheKey("price_performance", <<"BTC", "7d,30d,90d", "BTC", "true">>)
  IN IF cacheKey \in x.cache THEN cacheGet(x)
     ELSE LET currentResponse == clientGet(cacheGet(x), CRYPTOCURRENCY_QUOTES_LATEST, f)
              periodsDone == Caught(getHistoricalDataForPeriod(currentResponse, f))
          IN IF ~currentResponse.ok THEN currentResponse
             ELSE IF f = "bad_data" THEN Throw(currentResponse)
             ELSE cacheSet(periodsDone, cacheKey)

compareHistoricalPerformance(x, f) ==
  LET cacheKey == generateCacheKey("historical_performance_comparison", <<"BTC", "90d", "returns,volatility,sharpe_ratio", "true">>)
  IN IF cacheKey \in x.cache THEN cacheGet(x)
     ELSE cacheSet(Caught(getHistoricalDataForPeriod(cacheGet(x), f)), cacheKey)

analyzeMarketCycles(x, f) ==
  FetchAndCache(x, generateCacheKey("market_cycles", <<"BTC", "all", "2y", "false">>),
                <<HISTORICAL_OHLCV>>, f)

calculateRiskMetricsTool(x, f) ==
  LET cacheKey == generateCacheKey("risk_metrics", <<"BTC", "90d", "0.95,0.99", "BTC", "5">>)
  IN IF cacheKey \in x.cache THEN cacheGet(x)
     ELSE LET historicalData == getHistoricalDataForPeriod(cacheGet(x), f)
              benchmarkData == Caught(getHistoricalDataForPeriod(historicalData, f))
          IN IF ~historicalData.ok THEN historicalData
             ELSE IF f = "bad_data" THEN Throw(historicalData)
             ELSE cacheSet(benchmarkData, cacheKey)

(* the raw-data MarketMetricsTools *)

getMarketOverviewRaw(x, f) ==
  FetchAndCache(x, generateCacheKey("market_overview", <<"true">>),
                <<GLOBAL_METRICS_QUOTES_LATEST, CRYPTOCURRENCY_LISTINGS_LATEST>>, f)

getMarketDominanceRaw(x, f) ==
  FetchAndCache(x, generateCacheKey("market_dominance", <<"90d">>),
                <<GLOBAL_METRICS_QUOTES_LATEST>>, f)

getTrendingCryptocurrenciesRaw(x, f) ==
  FetchAndCache(x, generateCacheKey("trending_cryptos", <<"20", "search_score">>),
                <<CRYPTOCURRENCY_LISTINGS_LATEST, CRYPTOCURRENCY_LISTINGS_LATEST>>, f)

(* the raw-data TechnicalAnalysisTools and HistoricalAnalysisTools *)

\* the OHLCV quotes of a period, or none: a failed request is caught here and
\* gives an empty list, as does an answer without quotes
getHistoricalDataForPeriodRaw(x, f) == Caught(clientGet(x, HISTORICAL_OHLCV, f))

\* the quotes of the period, or the error thrown when there are none
RawDataAndCache(x, key, f) ==
  IF key \in x.cache THEN cacheGet(x)
  ELSE LET historicalData == getHistoricalDataForPeriodRaw(cacheGet(x), f)
       IN IF f \in {"bad_data", "rate_limited", HISTORICAL_OHLCV}
          THEN Throw(historicalData)
          ELSE cacheSet(historicalData, key)

getTechnicalData(x, f) ==
  RawDataAndCache(x, generateCacheKey("raw_technical_data", <<"BTC", "30d">>), f)

getPriceData(x, f) ==
  RawDataAndCache(x, generateCacheKey("raw_price_data", <<"BTC", "30d">>), f)

\* Date.toISOString: one text per instant
toISOString(date) == ToString(date)

\* the text of the instant thirty days before date
ThirtyDaysBefore(date) == toISOString(date) \o "-30d"

\* time_start and time_end are left out: the range ends at new Date() and
\* starts thirty days earlier, and both instants go into the key
getHistoricalDataRaw(x, f) ==
  LET endDate == x.now
      startDate == ThirtyDaysBefore(endDate)
  IN RawDataAndCache(x, generateCacheKey("historical_data",
                          <<"BTC", startDate, toISOString(endDate), "1d">>), f)

getPriceHistory(x, f) ==
  LET cacheKey == generateCacheKey("price_history", <<"BTC", "7d,30d,90d">>)
  IN IF cacheKey \in x.cache THEN cacheGet(x)
     ELSE cacheSet(getHistoricalDataForPeriodRaw(cacheGet(x), f), cacheKey)

compareHistoricalData(x, f) ==
  LET cacheKey == generateCacheKey("historical_comparison", <<"BTC,ETH", "30d">>)
  IN IF cacheKey \in x.cache THEN cacheGet(x)
     ELSE cacheSet(getHistoricalDataForPeriodRaw(cacheGet(x), f), cacheKey)

(* the handleToolCall switch of each tool class *)

PriceDataHandleToolCall(name, x, f) ==
  CASE name = "get_crypto_price" -> getCryptoPrice(x, f)
    [] name = "get_multiple_prices" -> getMultiplePrices(x, f)
    [] name = "get_top_cryptocurrencies" -> getTopCryptocurrencies(x, f)
    [] name = "search_cryptocurrencies" -> searchCryptocurrencies(x, f)

MarketMetricsHandleToolCall(name, args, x, f) ==
  CASE name = "get_market_overview" -> getMarketOverview(x, args, f)
    [] name = "get_market_dominance" -> getMarketDominance(x, f)
    [] name = "analyze_altcoin_season" -> analyzeAltcoinSeason(x, f)
    [] name = "get_trending_cryptocurrencies" -> getTrendingCryptocurrencies(x, f)
    [] name = "get_gainers_losers" -> getGainersLosers(x, f)

TechnicalHandleToolCall(name, x, f) ==
  CASE name = "calculate_technical_indicators" ->
         calculateTechnicalIndicators(x, "rsi,macd,sma", "30d", f)
    [] name = "analyze_price_action" -> analyzePriceAction(x, "30d", f)
    [] name = "generate_trading_signals" -> generateTradingSignals(x, f)
    [] name = "compare_technical_strength" -> compareTechnicalStrength(x, f)

HistoricalHandleToolCall(name, x, f) ==
  CASE name = "get_historical_data" -> getHistoricalDataTool(x, f)
    [] name = "analyze_price_performance" -> analyzePricePerformance(x, f)
    [] name = "compare_historical_performance" -> compareHistoricalPerformance(x, f)
    [] name = "analyze_market_cycles" -> analyzeMarketCycles(x, f)
    [] name = "calculate_risk_metrics" -> calculateRiskMetricsTool(x, f)

MarketMetricsHandleToolCallRaw(name, x, f) ==
  CASE name = "get_market_overview" -> getMarketOverviewRaw(x, f)
    [] name = "get_market_dominance" -> getMarketDominanceRaw(x, f)
    [] name = "get_trending_cryptocurrencies" -> getTrendingCryptocurrenciesRaw(x, f)

TechnicalHandleToolCallRaw(name, x, f) ==
  CASE name = "get_technical_data" -> getTechnicalData(x, f)
    [] name = "get_price_data" -> getPriceData(x, f)

HistoricalHandleToolCallRaw(name, x, f) ==
  CASE name = "get_historical_data" -> getHistoricalDataRaw(x, f)
    [] name = "get_price_history" -> getPriceHistory(x, f)
    [] name = "compare_historical_data" -> compareHistoricalData(x, f)

\* getServerInfo, getCacheStats, getRateLimitStatus, getApiTierStatus: only
\* getCacheStats consults the cache (its statistics)
ManagementHandleToolCall(name, x) ==
  IF name = "get_cache_stats" THEN cacheGet(x) ELSE x

(* the CallTool request handler of the server *)

NoError == [text |-> "", tool |-> "", currentTier |-> ""]

\* no tools/call request handled yet
NoCall ==
  [tool |-> "", isError |-> FALSE, error |-> NoError,
   sanitized |-> FALSE, handler |-> "none", cacheUsed |-> FALSE, sent |-> {},
   arguments |-> NoArgs]

\* the answer to a call the tier check blocks
TierBlocked(name, t) ==
  [tool |-> name, isError |-> TRUE, error |-> generateUnavailableToolError(name, t),
   sanitized |-> FALSE, handler |-> "none", cacheUsed |-> FALSE, sent |-> {},
   arguments |-> NoArgs]

\* sanitization, routing and the handler; the answer and the cache after it
Dispatch(name, args, f, c, b, at) ==
  LET sanitizedArgs == sanitizeInput(args)
      x == NewContext(c, at)
      handler ==
        CASE name \in PriceDataToolNames -> "priceDataTools"
          [] name \in MarketMetricsToolNames(b) -> "marketMetricsTools"
          [] name \in TechnicalAnalysisToolNames(b) -> "technicalAnalysisTools"
          [] name \in HistoricalAnalysisToolNames(b) -> "historicalAnalysisTools"
          [] name \in serverManagementTools -> "server"
          [] OTHER -> "none"
      r ==
        CASE handler = "priceDataTools" -> PriceDataHandleToolCall(name, x, f)
          [] handler = "marketMetricsTools" ->
               IF b = "analysis"
               THEN MarketMetricsHandleToolCall(name, sanitizedArgs, x, f)
               ELSE MarketMetricsHandleToolCallRaw(name, x, f)
          [] handler = "technicalAnalysisTools" ->
               IF b = "analysis"
               THEN TechnicalHandleToolCall(name, x, f)
               ELSE TechnicalHandleToolCallRaw(name, x, f)
          [] handler = "historicalAnalysisTools" ->
               IF b = "analysis"
               THEN HistoricalHandleToolCall(name, x, f)
               ELSE HistoricalHandleToolCallRaw(name, x, f)
          [] handler = "server" -> ManagementHandleToolCall(name, x)
          [] OTHER -> Throw(x)
  IN [answer |->
        [tool |-> name, isError |-> ~r.ok,
         error |-> IF r.ok THEN NoError
                   ELSE IF handler = "none"
                        THEN [text |-> "Tool not found", tool |-> name, currentTier |-> ""]
                        ELSE [text |-> "Failed", tool |-> name, currentTier |-> ""],
         sanitized |-> TRUE, handler |-> handler, cacheUsed |-> r.cacheUsed,
         sent |-> r.sent, arguments |-> args],
      cache |-> r.cache]

CallToolRequestUnchecked(name, args, f, c, t, b, at) == Dispatch(name, args, f, c, b, at)
CallToolRequest(name, args, f, c, t, b, at) ==
  IF ~isToolAvailable(name, t)
  THEN [answer |-> TierBlocked(name, t), cache |-> c]
  ELSE Dispatch(name, args, f, c, b, at)

\* the method under which each tool stores its own result
OwnCacheMethod(name, b) ==
  IF name \in PriceDataToolNames
  THEN CASE name = "get_crypto_price" -> "crypto_price"
         [] name = "get_multiple_prices" -> "multiple_prices"
         [] name = "get_top_cryptocurrencies" -> "top_cryptocurrencies"
         [] name = "search_cryptocurrencies" -> "search_cryptocurrencies"
  ELSE IF b = "analysis"
  THEN CASE name = "get_market_overview" -> "market_overview"
         [] name = "get_market_dominance" -> "market_dominance"
         [] name = "analyze_altcoin_season" -> "altcoin_season_analysis"
         [] name = "get_trending_cryptocurrencies" -> "trending_cryptocurrencies"
         [] name = "get_gainers_losers" -> "gainers_losers"
         [] name = "calculate_technical_indicators" -> "technical_indicators"
         [] name = "analyze_price_action" -> "price_action_analysis"
         [] name = "generate_trading_signals" -> "trading_signals"
         [] name = "compare_technical_strength" -> "technical_strength_comparison"
         [] name = "get_historical_data" -> "historical_data"
         [] name = "analyze_price_performance" -> "price_performance"
         [] name = "compare_historical_performance" -> "historical_performance_comparison"
         [] name = "analyze_market_cycles" -> "market_cycles"
         [] name = "calculate_risk_metrics" -> "risk_metrics"
         [] OTHER -> "none"
  ELSE CASE name = "get_market_overview" -> "market_overview"
         [] name = "get_market_dominance" -> "market_dominance"
         [] name = "get_trending_cryptocurrencies" -> "trending_cryptos"
         [] name = "get_technical_data" -> "raw_technical_data"
         [] name = "get_price_data" -> "raw_price_data"
         [] name = "get_historical_data" -> "historical_data"
         [] name = "get_price_history" -> "price_history"
         [] name = "compare_historical_data" -> "historical_comparison"
         [] OTHER -> "none"

\* the results a call has put into the cache under its own method: what
\* cache.get returns for that key until the entry expires
StoredResults(name, args, b, before, after) ==
  { [key |-> key, tool |-> name, arguments |-> args] :
      key \in { k \in after \ before : k.method = OwnCacheMethod(name, b) } }

\* the ListTools request handler of the server
ListToolsRequest(t, b) ==
  { name \in allTools(b) : name \in serverManagementTools \/ isToolAvailable(name, t) }

----------------------------------------------------------------------------
(* The rate limiter of CoinMarketCapClient: a request counter over a window *)
(* that restarts when a request arrives 60 seconds or more after the window *)
(* started.  Every client.get call passes the request interceptor, which    *)
(* runs checkRateLimit and then counts the request.                         *)

RateWindowMs == 60000

DefaultMaxRequestsPerMinute == 100

\* checkRateLimit at time t: the counter and window start it leaves, and
\* whether it throws 'Rate limit exceeded'
checkRateLimit(count, lastReset, t, limit) ==
  LET timeSinceReset == t - lastReset
      reset == timeSinceReset >= RateWindowMs
      count1 == IF reset THEN 0 ELSE count
  IN [requestCount |-> count1,
      lastResetTime |-> IF reset THEN t ELSE lastReset,
      thrown |-> count1 >= limit]

\* an interceptor that counts the request whether or not the check threw
requestInterceptorCountsAll(count, lastReset, t, limit) ==
  LET checked == checkRateLimit(count, lastReset, t, limit)
  IN [checked EXCEPT !.requestCount = @ + 1]

\* the request interceptor: checkRateLimit(); requestCount++, run to its end
\* before any other call's interceptor starts (it holds no await)
requestInterceptor(count, lastReset, t, limit) ==
  LET checked == checkRateLimit(count, lastReset, t, limit)
  IN IF checked.thrown THEN checked
     ELSE [checked EXCEPT !.requestCount = @ + 1]

\* RATE_LIMIT_REQUESTS_PER_MINUTE as the server reads it
RateLimits == (1..MaxRate) \cup {DefaultMaxRequestsPerMinute}

----------------------------------------------------------------------------
(* src/api/rate-limiter.ts: RateLimiter, a log of the request times of the  *)
(* last timeWindow milliseconds, and TokenBucket.  Every method reads the    *)
(* clock itself; t is the Date.now() of the call.  A method that changes     *)
(* the object returns the object it leaves next to its result.               *)

MsPerSecond == 1000

Max(a, b) == IF a > b THEN a ELSE b

\* this.requests.filter(timestamp => timestamp > now - this.timeWindow)
cleanupOldRequests(l, t) ==
  [l EXCEPT !.requests = SelectSeq(@, LAMBDA timestamp : timestamp > t - l.timeWindow)]

canMakeRequest(l, t) ==
  LET cleaned == cleanupOldRequests(l, t)
  IN [limiter |-> cleaned, result |-> Len(cleaned.requests) < cleaned.maxRequests]

\* a recordRequest that records without looking at the limit
recordRequestUnchecked(l, t) ==
  LET cleaned == cleanupOldRequests(l, t)
  IN [limiter |-> [cleaned EXCEPT !.requests = Append(@, t)], thrown |-> FALSE]

recordRequest(l, t) ==
  LET cleaned == cleanupOldRequests(l, t)
  IN IF Len(cleaned.requests) >= cleaned.maxRequests
       THEN [limiter |-> cleaned, thrown |-> TRUE]
       ELSE [limiter |-> [cleaned EXCEPT !.requests = Append(@, t)], thrown |-> FALSE]

getRequestCount(l, t) ==
  LET cleaned == cleanupOldRequests(l, t)
  IN [limiter |-> cleaned, result |-> Len(cleaned.requests)]

getRemainingRequests(l, t) ==
  LET counted == getRequestCount(l, t)
  IN [limiter |-> counted.limiter, result |-> Max(0, l.maxRequests - counted.result)]

getResetTime(l) ==
  IF Len(l.requests) = 0 THEN 0 ELSE l.requests[1] + l.timeWindow

getWaitTime(l, t) ==
  LET can == canMakeRequest(l, t)
  IN [limiter |-> can.limiter,
      result |-> IF can.result THEN 0 ELSE Max(0, getResetTime(can.limiter) - t)]

\* elapsed = (now - lastRefill) / 1000; tokensToAdd = floor(elapsed * refillRate)
refill(b, t) ==
  LET tokensToAdd == ((t - b.lastRefill) * b.refillRate) \div MsPerSecond
  IN IF tokensToAdd > 0
       THEN [b EXCEPT !.tokens = Min(b.capacity, @ + tokensToAdd), !.lastRefill = t]
       ELSE b

consume(b, tokens, t) ==
  LET filled == refill(b, t)
  IN IF filled.tokens >= tokens
       THEN [bucket |-> [filled EXCEPT !.tokens = @ - tokens], result |-> TRUE]
       ELSE [bucket |-> filled, result |-> FALSE]

getAvailableTokens(b, t) ==
  LET filled == refill(b, t)
  IN [bucket |-> filled, result |-> filled.tokens]

\* new RateLimiter(maxRequests, timeWindowMs)
NewRateLimiter(maxRequests, timeWindowMs) ==
  [requests |-> <<>>, maxRequests |-> maxRequests, timeWindow |-> timeWindowMs]

\* new TokenBucket(capacity, refillRate) at time t
NewTokenBucket(capacity, refillRate, t) ==
  [tokens |-> capacity, lastRefill |-> t, capacity |-> capacity, refillRate |-> refillRate]

NoReply == [op |-> "none"]

----------------------------------------------------------------------------
(* Candle series given to the indicators *)

\* a close series that rises by step per candle, with a dip every fifth candle
SeriesOf(len, base, step, dip) ==
  [i \in 1..len |-> base + step * (i - 1) - (IF i % 5 = 0 THEN dip ELSE 0)]

MacdInputs ==
  { SeriesOf(len, base, step, dip) :
      len \in (DefaultSlowPeriod + DefaultSignalPeriod - 2)..MaxCandles,
      base \in {100, 150}, step \in 0..2, dip \in {0, 1, 5} }

IsIncreasing(s) == \A i \in 1..(Len(s) - 1) : s[i] < s[i + 1]

----------------------------------------------------------------------------
(* Parts of the state a specification leaves untouched *)

EngineIdle ==
  /\ closes = <<>>
  /\ volumes = <<>>
  /\ period = 0
  /\ macd = NoResult
  /\ rsi = NoResult
  /\ via = "none"
  /\ indicator = NoResult

SignalIdle ==
  /\ signals = <<>>
  /\ strategy = "moderate"
  /\ overall = NoResult

RiskIdle ==
  /\ assetCloses = <<>>
  /\ bench = [fetch |-> "same", closes |-> <<>>]
  /\ riskFreeRate = 5
  /\ risk = NoResult

ServerIdle ==
  /\ tier = "free"
  /\ toolset = "analysis"
  /\ cache = {}
  /\ results = {}
  /\ listed = {}
  /\ call = NoCall
  /\ calls = 0

StatIdle ==
  /\ op = "none"
  /\ sample = <<>>
  /\ other = <<>>
  /\ stat = NoResult

LimiterIdle ==
  /\ clock = 0
  /\ limiter = NewRateLimiter(0, 0)
  /\ bucket = NewTokenBucket(0, 0, 0)
  /\ reply = NoReply
  /\ grants = <<>>

ClientIdle ==
  /\ now = 0
  /\ maxRequestsPerMinute = DefaultMaxRequestsPerMinute
  /\ requestCount = 0
  /\ lastResetTime = 0
  /\ sendTimes = <<>>
  /\ outcome = <<>>

----------------------------------------------------------------------------
(* Specification of the MACD computation *)

InitMACD ==
  /\ closes \in MacdInputs
  /\ volumes = <<>>
  /\ period = 0
  /\ macd = NoResult
  /\ rsi = NoResult
  /\ via = "none"
  /\ indicator = NoResult
  /\ SignalIdle
  /\ RiskIdle
  /\ ServerIdle
  /\ StatIdle
  /\ ClientIdle
  /\ LimiterIdle

CalcMACD ==
  /\ macd = NoResult
  /\ macd' = calculateMACD(closes, DefaultFastPeriod, DefaultSlowPeriod, DefaultSignalPeriod)
  /\ UNCHANGED <<limiterVars, closes, volumes, period, rsi, via, indicator, signalVars, riskVars, serverVars, statVars, clientVars>>

NextMACD == CalcMACD

SpecMACD == InitMACD /\ [][NextMACD]_vars

----------------------------------------------------------------------------
(* Specification of the RSI computation *)

RECURSIVE SeqsUpTo(_, _)
\* every sequence over S of length 0 .. n
SeqsUpTo(S, n) ==
  IF n = 0 THEN {<<>>}
  ELSE LET shorter == SeqsUpTo(S, n - 1)
       IN shorter \cup { Append(s, x) : s \in { t \in shorter : Len(t) = n - 1 }, x \in S }

RsiPrices == {100, 101, 103}

\* Scenario A of the specification: 15 closes, RSI(14)
ScenarioA == <<100, 102, 104, 103, 105, 107, 106, 108, 110, 109, 111, 113, 112, 114, 116>>

InitRSI ==
  /\ \/ /\ closes \in SeqsUpTo(RsiPrices, MaxRsiCandles)
        /\ period \in 1..MaxRsiPeriod
     \/ /\ closes \in {ScenarioA, Append(ScenarioA, 115), SubSeq(ScenarioA, 1, 5)}
        /\ period = DefaultRsiPeriod
  /\ volumes = <<>>
  /\ macd = NoResult
  /\ rsi = NoResult
  /\ via = "none"
  /\ indicator = NoResult
  /\ SignalIdle
  /\ RiskIdle
  /\ ServerIdle
  /\ StatIdle
  /\ ClientIdle
  /\ LimiterIdle

\* calculateRSI applied to the series
CalcRSI ==
  /\ via = "none"
  /\ rsi' = calculateRSI(closes, period)
  /\ via' = "function"
  /\ UNCHANGED <<limiterVars, closes, volumes, period, macd, indicator, signalVars, riskVars, serverVars, statVars, clientVars>>

\* the calculate_technical_indicators tool asked for the RSI of the series
ToolRSI ==
  /\ via = "none"
  /\ rsi' = calculateTechnicalIndicatorsRSI(closes, period)
  /\ via' = "tool"
  /\ UNCHANGED <<limiterVars, closes, volumes, period, macd, indicator, signalVars, riskVars, serverVars, statVars, clientVars>>

NextRSI == CalcRSI \/ ToolRSI

SpecRSI == InitRSI /\ [][NextRSI]_vars

----------------------------------------------------------------------------
(* Specification of the indicator operations on short and long series *)

IndicatorPrices == {100, 101, 104}

InitIndicator ==
  /\ closes \in SeqsUpTo(IndicatorPrices, MaxIndicatorCandles)
  /\ volumes \in {[i \in 1..Len(closes) |-> 10 + step * i] : step \in {0, 20}}
  /\ period \in 1..MaxIndicatorPeriod
  /\ macd = NoResult
  /\ rsi = NoResult
  /\ via = "none"
  /\ indicator = NoResult
  /\ SignalIdle
  /\ RiskIdle
  /\ ServerIdle
  /\ StatIdle
  /\ ClientIdle
  /\ LimiterIdle

\* one indicator operation applied to the series
CalcIndicator(name) ==
  /\ indicator = NoResult
  /\ indicator' = [name |-> name, result |-> IndicatorCase(name, closes, volumes, period)]
  /\ UNCHANGED <<limiterVars, closes, volumes, period, macd, rsi, via, signalVars, riskVars,
                 serverVars, statVars, clientVars>>

NextIndicator == \E name \in IndicatorNames : CalcIndicator(name)

SpecIndicator == InitIndicator /\ [][NextIndicator]_vars

----------------------------------------------------------------------------
(* Specification of generate_trading_signals *)

TradingSeries ==
  { SeriesOf(len, 200, step, dip) :
      len \in (PriceActionMinCandles - 2)..MaxCandles,
      step \in {-2, 0, 2}, dip \in {0, 5} }

InitTrading ==
  /\ closes \in TradingSeries
  /\ volumes \in {[i \in 1..Len(closes) |-> 1000 + step * i] : step \in {-10, 0, 10}}
  /\ period = DefaultPeriod
  /\ macd = NoResult
  /\ rsi = NoResult
  /\ via = "none"
  /\ indicator = NoResult
  /\ signals = <<>>
  /\ strategy \in Strategies
  /\ overall = NoResult
  /\ RiskIdle
  /\ ServerIdle
  /\ StatIdle
  /\ ClientIdle
  /\ LimiterIdle

GenerateTradingSignals ==
  /\ overall = NoResult
  /\ overall' = tradingSignals(closes, volumes, strategy)
  /\ signals' = IF overall'.status = "ok" THEN overall'.signals ELSE <<>>
  /\ UNCHANGED <<limiterVars, engineVars, strategy, riskVars, serverVars, statVars, clientVars>>

NextTrading == GenerateTradingSignals

SpecTrading == InitTrading /\ [][NextTrading]_vars

----------------------------------------------------------------------------
(* Specification of the signal aggregator *)

SignalLabels == {"bullish", "bearish", "neutral", "buy", "sell"}
SignalWeights == {30, 40, 31, 69}

SignalChoices == { [signal |-> l, weight |-> w] : l \in SignalLabels, w \in SignalWeights }

InitSignal ==
  /\ EngineIdle
  /\ RiskIdle
  /\ ServerIdle
  /\ StatIdle
  /\ ClientIdle
  /\ LimiterIdle
  /\ signals \in SeqsUpTo(SignalChoices, MaxSignals)
  /\ strategy \in Strategies \cup {"other"}
  /\ overall = NoResult

CalcOverallSignal ==
  /\ overall = NoResult
  /\ overall' = calculateOverallSignal(signals, strategy)
  /\ UNCHANGED <<limiterVars, engineVars, signals, strategy, riskVars, serverVars, statVars, clientVars>>

NextSignal == CalcOverallSignal

SpecSignal == InitSignal /\ [][NextSignal]_vars

----------------------------------------------------------------------------
(* Specification of the risk metrics calculator *)

RiskSeries ==
  { SeriesOf(len, 100, step, dip) :
      len \in 0..MaxRiskCandles, step \in {0, 1, 2}, dip \in {0, 5} }

\* the benchmark: the asset itself (no benchmark block), a fetch that fails,
\* or a fetched candle series
Benchmarks ==
  {[fetch |-> f, closes |-> <<>>] : f \in {"same", "fail"}}
    \cup {[fetch |-> "ok", closes |-> c] : c \in RiskSeries}

\* the risk_free_rate argument in percent: the default 5.0, or 0
RiskFreeRates == {0, 5}

InitRisk ==
  /\ EngineIdle
  /\ SignalIdle
  /\ ServerIdle
  /\ StatIdle
  /\ ClientIdle
  /\ LimiterIdle
  /\ assetCloses \in RiskSeries
  /\ bench \in Benchmarks
  /\ riskFreeRate \in RiskFreeRates
  /\ risk = NoResult

CalcRiskMetrics ==
  /\ risk = NoResult
  /\ risk' = calculateRiskMetrics(assetCloses, bench, riskFreeRate)
  /\ UNCHANGED <<limiterVars, engineVars, signalVars, assetCloses, bench, riskFreeRate, serverVars,
               statVars, clientVars>>

NextRisk == CalcRiskMetrics

SpecRisk == InitRisk /\ [][NextRisk]_vars

----------------------------------------------------------------------------
(* Specification of the server: tool listing and tool calls under a tier *)

\* the names a client may call: every tool of either toolset, and one that
\* no toolset defines
ToolNames == allTools("analysis") \cup allTools("raw") \cup {"unknown_tool"}

ArgumentsOf(name) == IF name = "get_market_overview" THEN Arguments ELSE {NoArgs}

Init ==
  /\ EngineIdle
  /\ SignalIdle
  /\ RiskIdle
  /\ StatIdle
  /\ ClientIdle
  /\ LimiterIdle
  /\ tier \in ApiTier
  /\ toolset \in Toolsets
  /\ cache = {}
  /\ results = {}
  /\ listed = {}
  /\ call = NoCall
  /\ calls = 0

ListTools ==
  /\ listed' = ListToolsRequest(tier, toolset)
  /\ UNCHANGED <<limiterVars, engineVars, signalVars, riskVars, tier, toolset, cache, results, call, calls,
               statVars, clientVars>>

CallTool(name, args, f) ==
  /\ calls < MaxToolCalls
  /\ LET done == CallToolRequest(name, args, f, cache, tier, toolset, calls)
     IN /\ call' = done.answer
        /\ cache' = done.cache
        /\ results' = results \cup StoredResults(name, args, toolset, cache, done.cache)
  /\ calls' = calls + 1
  /\ UNCHANGED <<limiterVars, engineVars, signalVars, riskVars, tier, toolset, listed, statVars, clientVars>>

\* a cached entry reaches its time to live and is deleted
ExpireCacheKey ==
  /\ \E key \in cache :
       /\ cache' = cache \ {key}
       /\ results' = { r \in results : r.key # key }
  /\ UNCHANGED <<limiterVars, engineVars, signalVars, riskVars, tier, toolset, listed, call, calls,
               statVars, clientVars>>

Next ==
  \/ ListTools
  \/ \E name \in ToolNames : \E args \in ArgumentsOf(name) : \E f \in Faults :
       CallTool(name, args, f)
  \/ ExpireCacheKey

Spec == Init /\ [][Next]_vars

----------------------------------------------------------------------------
(* Specification of the client's rate limiter *)

InitClient ==
  /\ LimiterIdle
  /\ EngineIdle
  /\ SignalIdle
  /\ RiskIdle
  /\ ServerIdle
  /\ StatIdle
  /\ now = 0
  /\ maxRequestsPerMinute \in RateLimits
  /\ requestCount = 0
  /\ lastResetTime = 0
  /\ sendTimes = <<>>
  /\ outcome = <<>>

\* time passes.  Only differences of times matter to the client, so when
\* the clock would pass MaxTicks * TickMs every time is moved back by one
\* window: a window start 60 seconds old or older stays "60 seconds old",
\* and a request sent 60 seconds ago or earlier, which shares no 60-second
\* interval with a later one, is forgotten
Tick ==
  LET t == now + TickMs
      shift == IF t > MaxTicks * TickMs THEN RateWindowMs ELSE 0
      oldest == (t - shift) - RateWindowMs
      moved == [i \in 1..Len(sendTimes) |-> sendTimes[i] - shift]
  IN /\ now' = t - shift
     /\ lastResetTime' = IF lastResetTime - shift < oldest THEN oldest
                         ELSE lastResetTime - shift
     /\ sendTimes' = IF shift = 0 THEN sendTimes
                     ELSE SelectSeq(moved, LAMBDA s : s > oldest)
     /\ UNCHANGED <<limiterVars, engineVars, signalVars, riskVars, serverVars, statVars,
                    maxRequestsPerMinute, requestCount, outcome>>

\* one client.get call: the interceptor lets the request go to the provider
\* or throws; get logs the error and rethrows it, and the tools/call handler
\* answers with the error
ClientGet ==
  /\ Len(outcome) < MaxClientCalls
  /\ LET r == requestInterceptor(requestCount, lastResetTime, now, maxRequestsPerMinute)
     IN /\ requestCount' = r.requestCount
        /\ lastResetTime' = r.lastResetTime
        /\ sendTimes' = IF r.thrown THEN sendTimes ELSE Append(sendTimes, now)
        /\ outcome' = Append(outcome, IF r.thrown THEN "rejected" ELSE "sent")
  /\ UNCHANGED <<limiterVars, engineVars, signalVars, riskVars, serverVars, statVars,
                 now, maxRequestsPerMinute>>

NextClient == Tick \/ ClientGet

SpecClient == InitClient /\ [][NextClient]_vars

\* the clock keeps running and a pending call is made
SpecClientFair == SpecClient /\ WF_vars(Tick) /\ WF_vars(ClientGet)

----------------------------------------------------------------------------
(* Specification of a RateLimiter under calls at non-decreasing times *)

\* the clock advances in half seconds, which (now - lastRefill) / 1000
\* represents exactly
ClockStepMs == MsPerSecond \div 2

OthersIdle ==
  /\ EngineIdle
  /\ SignalIdle
  /\ RiskIdle
  /\ ServerIdle
  /\ StatIdle
  /\ ClientIdle

otherVars == <<engineVars, signalVars, riskVars, serverVars, statVars, clientVars>>

InitLimiter ==
  /\ OthersIdle
  /\ clock = 0
  /\ limiter \in { NewRateLimiter(maxRequests, timeWindowMs) :
                     maxRequests \in 0..MaxLimiterRequests,
                     timeWindowMs \in {ClockStepMs, MsPerSecond} }
  /\ bucket = NewTokenBucket(0, 0, 0)
  /\ reply = NoReply
  /\ grants = <<>>

ClockTick ==
  /\ clock < MaxLimiterTicks * ClockStepMs
  /\ clock' = clock + ClockStepMs
  /\ UNCHANGED <<otherVars, limiter, bucket, reply, grants>>

CanMakeRequest ==
  LET r == canMakeRequest(limiter, clock)
  IN /\ limiter' = r.limiter
     /\ reply' = [op |-> "canMakeRequest", result |-> r.result]
     /\ UNCHANGED <<otherVars, clock, bucket, grants>>

RecordRequest ==
  LET r == recordRequest(limiter, clock)
  IN /\ limiter' = r.limiter
     /\ reply' = [op |-> "recordRequest", result |-> ~r.thrown]
     /\ UNCHANGED <<otherVars, clock, bucket, grants>>

GetRemainingRequests ==
  LET r == getRemainingRequests(limiter, clock)
  IN /\ limiter' = r.limiter
     /\ reply' = [op |-> "getRemainingRequests", result |-> r.result]
     /\ UNCHANGED <<otherVars, clock, bucket, grants>>

GetWaitTime ==
  LET r == getWaitTime(limiter, clock)
  IN /\ limiter' = r.limiter
     /\ reply' = [op |-> "getWaitTime", result |-> r.result]
     /\ UNCHANGED <<otherVars, clock, bucket, grants>>

NextLimiter ==
  \/ ClockTick
  \/ CanMakeRequest
  \/ RecordRequest
  \/ GetRemainingRequests
  \/ GetWaitTime

SpecLimiter == InitLimiter /\ [][NextLimiter]_vars

----------------------------------------------------------------------------
(* Specification of a TokenBucket *)

InitBucket ==
  /\ OthersIdle
  /\ clock = 0
  /\ limiter = NewRateLimiter(0, 0)
  /\ bucket \in { NewTokenBucket(capacity, refillRate, 0) :
                    capacity \in 0..MaxCapacity, refillRate \in 0..MaxRefillRate }
  /\ reply = NoReply
  /\ grants = <<>>

BucketTick ==
  /\ clock < MaxLimiterTicks * ClockStepMs
  /\ clock' = clock + ClockStepMs
  /\ UNCHANGED <<otherVars, limiter, bucket, reply, grants>>

Consume(tokens) ==
  /\ Len(grants) < MaxGrants
  /\ LET r == consume(bucket, tokens, clock)
     IN /\ bucket' = r.bucket
        /\ reply' = [op |-> "consume", result |-> r.result]
        /\ grants' = IF r.result THEN Append(grants, [at |-> clock, tokens |-> tokens])
                     ELSE grants
  /\ UNCHANGED <<otherVars, clock, limiter>>

GetAvailableTokens ==
  LET r == getAvailableTokens(bucket, clock)
  IN /\ bucket' = r.bucket
     /\ reply' = [op |-> "getAvailableTokens", result |-> r.result]
     /\ UNCHANGED <<otherVars, clock, limiter, grants>>

NextBucket ==
  \/ BucketTick
  \/ \E tokens \in 1..MaxConsume : Consume(tokens)
  \/ GetAvailableTokens

SpecBucket == InitBucket /\ [][NextBucket]_vars

----------------------------------------------------------------------------
(* Specification of the statistics functions *)

\* closes of the candle series given to calculateMaxDrawdown
DrawdownPrices == {50, 100, 200}

\* returns in thousandths given to VaR, expected shortfall and Sharpe ratio
StatReturns == {-20, -7, 10}

\* Scenario C of the specification: 0.01, -0.02, 0.015, -0.01, 0.02, -0.03, 0.005
ScenarioC == <<10, -20, 15, -10, 20, -30, 5>>

\* returns in thousandths given to calculateCorrelation
PairReturns == {-2, 0, 1}

InitStat ==
  /\ EngineIdle
  /\ SignalIdle
  /\ RiskIdle
  /\ ServerIdle
  /\ ClientIdle
  /\ LimiterIdle
  /\ stat = NoResult
  /\ \/ /\ op = "max_drawdown"
        /\ sample \in SeqsUpTo(DrawdownPrices, MaxStatLen) \ {<<>>}
        /\ other = <<>>
     \/ /\ op \in {"value_at_risk", "expected_shortfall", "sharpe_ratio"}
        /\ sample \in (SeqsUpTo(StatReturns, MaxStatLen) \ {<<>>}) \cup {ScenarioC}
        /\ other = <<>>
     \/ /\ op = "correlation"
        /\ sample \in SeqsUpTo(PairReturns, MaxPairLen)
        /\ other \in SeqsUpTo(PairReturns, MaxPairLen)
     \/ /\ op = "returns"
        /\ sample \in SeqsUpTo(DrawdownPrices, MaxStatLen)
        /\ other = <<>>

CalcMaxDrawdown ==
  /\ op = "max_drawdown"
  /\ stat = NoResult
  /\ stat' = calculateMaxDrawdown(sample)
  /\ UNCHANGED <<limiterVars, engineVars, signalVars, riskVars, serverVars, clientVars, op, sample, other>>

\* calculateVaR at every confidence level
CalcVaR ==
  /\ op = "value_at_risk"
  /\ stat = NoResult
  /\ stat' = [c \in DOMAIN OneMinus |-> calculateVaR(sample, c)]
  /\ UNCHANGED <<limiterVars, engineVars, signalVars, riskVars, serverVars, clientVars, op, sample, other>>

\* calculateExpectedShortfall, with the VaR of the level, at every level
CalcExpectedShortfall ==
  /\ op = "expected_shortfall"
  /\ stat = NoResult
  /\ stat' = [c \in DOMAIN OneMinus |->
                [var |-> calculateVaR(sample, c),
                 es |-> calculateExpectedShortfall(sample, c)]]
  /\ UNCHANGED <<limiterVars, engineVars, signalVars, riskVars, serverVars, clientVars, op, sample, other>>

CalcSharpeRatio ==
  /\ op = "sharpe_ratio"
  /\ stat = NoResult
  /\ stat' = [sharpe_ratio |-> calculateSharpeRatio(sample)]
  /\ UNCHANGED <<limiterVars, engineVars, signalVars, riskVars, serverVars, clientVars, op, sample, other>>

CalcCorrelation ==
  /\ op = "correlation"
  /\ stat = NoResult
  /\ stat' = [correlation |-> calculateCorrelation(sample, other)]
  /\ UNCHANGED <<limiterVars, engineVars, signalVars, riskVars, serverVars, clientVars, op, sample, other>>

\* calculateReturns on the closes of a candle series; it has no throw
CalcReturns ==
  /\ op = "returns"
  /\ stat = NoResult
  /\ stat' = [thrown |-> FALSE, returns |-> calculateReturns(sample)]
  /\ UNCHANGED <<limiterVars, engineVars, signalVars, riskVars, serverVars, clientVars, op, sample, other>>

NextStat ==
  \/ CalcReturns
  \/ CalcMaxDrawdown
  \/ CalcVaR
  \/ CalcExpectedShortfall
  \/ CalcSharpeRatio
  \/ CalcCorrelation

SpecStat == InitStat /\ [][NextStat]_vars

----------------------------------------------------------------------------
(* Claims about the indicator engine *)

\* C1: every element of the MACD line is EMA(fast) minus EMA(slow) at the
\* same candle index, and every index read from either EMA series lies
\* inside that series.
C1_MacdLineAligned ==
  macd.status = "ok" =>
    \A j \in 1..Len(macd.macdLine) :
      LET i == (DefaultSlowPeriod - 1) + (j - 1)
      IN /\ InRange(macd.fastEMA, i)
         /\ InRange(macd.slowEMA, MacdSlowIndex(i, DefaultFastPeriod, DefaultSlowPeriod))
         /\ macd.macdLine[j] = Sub(At(macd.fastEMA, i), At(macd.slowEMA, i))

\* C2: a monotonically increasing close series of at least 26 + 9 = 35
\* candles gives the MACD signal 'bullish' under the default periods.
C2_UptrendIsBullish ==
  (macd.status # "none" /\ IsIncreasing(closes)
     /\ Len(closes) >= DefaultSlowPeriod + DefaultSignalPeriod)
    => (macd.status = "ok" /\ macd.signal = "bullish")

\* C3: RSI(period) accepts every series of at least period + 1 candles and
\* returns a number between 0 and 100 on it; on the 15 closes of Scenario A
\* with period 14 the value is strictly between 0 and 100 and the signal is
\* 'neutral'.
C3_RsiAcceptsAndBounded ==
  (via # "none" /\ Len(closes) >= period + 1) =>
    /\ rsi.status = "ok"
    /\ IsNum(rsi.current_value)
    /\ rsi.current_value.v >= 0
    /\ rsi.current_value.v <= 100 * Scale
    /\ (closes = ScenarioA /\ period = DefaultRsiPeriod) =>
         /\ rsi.current_value.v > 0
         /\ rsi.current_value.v < 100 * Scale
         /\ rsi.signal = "neutral"

----------------------------------------------------------------------------
(* Claims about the signal aggregator *)

RECURSIVE WeightOf(_, _)
\* the summed weight of the signals whose label is in labels
WeightOf(sigs, labels) ==
  IF Len(sigs) = 0 THEN 0
  ELSE (IF sigs[1].signal \in labels THEN sigs[1].weight ELSE 0)
         + WeightOf(Tail(sigs), labels)

ProfileThreshold ==
  IF strategy = "conservative" THEN 70 ELSE IF strategy = "moderate" THEN 60 ELSE 55

\* C4: the aggregate signal is 'buy' exactly when the bullish share of the
\* total weight strictly exceeds the profile threshold (70, 60, 55), 'sell'
\* exactly when the bearish share does, 'hold' otherwise; a bullish share of
\* exactly 69% under the conservative profile gives 'hold'.
C4_ThresholdRule ==
  (overall.status = "ok" /\ strategy \in Strategies) =>
    LET total == WeightOf(signals, SignalLabels)
        bull == WeightOf(signals, {"bullish", "buy"})
        bear == WeightOf(signals, {"bearish", "sell"})
        bullOver == total > 0 /\ 100 * bull > ProfileThreshold * total
        bearOver == total > 0 /\ 100 * bear > ProfileThreshold * total
    IN /\ (overall.signal = "buy") <=> bullOver
       /\ (overall.signal = "sell") <=> bearOver
       /\ (overall.signal = "hold") <=> (~bullOver /\ ~bearOver)
       /\ (strategy = "conservative" /\ 100 * bull = 69 * total) => overall.signal = "hold"

\* C4 witness: the conservative profile at a bullish share of exactly 69%
C4_Witness69 ==
  /\ overall.status = "ok"
  /\ strategy = "conservative"
  /\ WeightOf(signals, SignalLabels) > 0
  /\ 100 * WeightOf(signals, {"bullish", "buy"}) = 69 * WeightOf(signals, SignalLabels)
  /\ overall.signal = "hold"

----------------------------------------------------------------------------
(* Claims about the risk metrics calculator *)

\* C5: a risk-metrics request over a series with fewer than 10 return
\* observations (fewer than 11 candles) fails with the insufficient-data
\* error and returns no metrics.
C5_FewReturnsRejected ==
  (risk.status # "none" /\ Len(assetCloses) < 11) =>
    (risk.status = "error" /\ risk.error = "Insufficient data for risk calculations")

\* C6: when the asset and the benchmark return series differ in length, beta
\* and correlation are those of both series trimmed to the shorter length
\* from the most recent end; the mismatch alone gives no default value.
C6_MismatchIsTrimmed ==
  (risk.status = "ok" /\ risk.hasBenchmark
     /\ Len(risk.returns) # Len(risk.benchmarkReturns)
     /\ Min(Len(risk.returns), Len(risk.benchmarkReturns)) >= 2) =>
    LET m == Min(Len(risk.returns), Len(risk.benchmarkReturns))
        a == SliceLast(risk.returns, m)
        b == SliceLast(risk.benchmarkReturns, m)
    IN /\ risk.beta = BetaOfAligned(a, b)
       /\ risk.correlation = CorrelationOfAligned(a, b)

----------------------------------------------------------------------------
(* Claims about the API tiers and the tool dispatch *)

\* the answer of the tier check to a tool it blocks
IsTierRejection(c) ==
  c.isError /\ c.error.text = "requires a paid CoinMarketCap API plan"

\* the tools the tier documentation lists for the free tier
DocumentedFreeTools ==
  {"get_crypto_price", "get_multiple_prices", "get_top_cryptocurrencies",
   "search_cryptocurrencies", "get_market_overview", "get_market_dominance",
   "analyze_altcoin_season"}

DocumentedManagementTools ==
  {"get_server_info", "get_cache_stats", "get_rate_limit_status", "get_api_tier_status"}

\* C7: with the tier configured as free, no tool call that the server accepts
\* sends a request to a premium (blocked) endpoint.
C7_FreeTierNoPremiumRequest ==
  (tier = "free" /\ call.tool # "" /\ ~IsTierRejection(call)) =>
    call.sent \cap PREMIUM_ENDPOINTS = {}

\* C8: with the tier configured as startup or a higher plan (standard,
\* professional, enterprise), all 18 mapped tools are available: each one the
\* server defines is listed by tools/list, and none is rejected by the tier
\* check on tools/call.
C8_PaidTiersAllTools ==
  tier \in {"startup", "standard", "professional", "enterprise"} =>
    /\ Cardinality(DOMAIN TOOL_ENDPOINT_MAPPING) = 18
    /\ listed # {} =>
         (DOMAIN TOOL_ENDPOINT_MAPPING \cap allTools(toolset)) \subseteq listed
    /\ call.tool \in DOMAIN TOOL_ENDPOINT_MAPPING => ~IsTierRejection(call)

\* C9: with the tier configured as free, the tools listed and callable are
\* exactly the 7 documented free-tier tools plus the 4 management tools; every
\* other tool the server defines is hidden from tools/list and rejected on
\* tools/call.
C9_FreeTierExactTools ==
  tier = "free" =>
    /\ listed # {} =>
         listed = (DocumentedFreeTools \cup DocumentedManagementTools) \cap allTools(toolset)
    /\ call.tool \in allTools(toolset) =>
         (IsTierRejection(call)
            <=> call.tool \notin DocumentedFreeTools \cup DocumentedManagementTools)

\* C10: a call to a tool that is unavailable for the current tier returns an
\* error result that names the tier restriction, and it reaches neither input
\* sanitization, nor a tool handler, nor the cache, nor the provider.
C10_BlockedCallTouchesNothing ==
  [][(calls' = calls + 1 /\ ~isToolAvailable(call'.tool, tier)) =>
       /\ IsTierRejection(call')
       /\ call'.error.tool = call'.tool
       /\ call'.error.currentTier = tier
       /\ ~call'.sanitized
       /\ call'.handler = "none"
       /\ ~call'.cacheUsed
       /\ call'.sent = {}
       /\ cache' = cache]_vars

\* C10 witness: a blocked call answered while the cache holds an earlier result
C10_WitnessBlockedCall ==
  /\ calls = 2
  /\ cache # {}
  /\ ~isToolAvailable(call.tool, tier)
  /\ IsTierRejection(call)
  /\ call.sent = {}

----------------------------------------------------------------------------
(* Claims about the rate limiter of the client *)

\* C11: in any 60-second interval the client passes at most
\* maxRequestsPerMinute requests on to the provider: counted from any
\* request sent, the requests sent less than 60 seconds later (itself
\* included) number at most the limit.
C11_AtMostLimitPerMinute ==
  \A i \in 1..Len(sendTimes) :
    Cardinality({ j \in 1..Len(sendTimes) :
                    /\ sendTimes[j] >= sendTimes[i]
                    /\ sendTimes[j] < sendTimes[i] + RateWindowMs })
      <= maxRequestsPerMinute

\* C12: a client.get call that hits the rate limit is queued and retried: the
\* same call is eventually passed on to the provider.
C12_RejectedEventuallySent ==
  \A i \in 1..MaxClientCalls :
    (Len(outcome) >= i /\ outcome[i] = "rejected")
      ~> (Len(outcome) >= i /\ outcome[i] = "sent")

----------------------------------------------------------------------------
(* Claims about the statistics functions *)

\* C13: the drawdown descriptor describes one decline: peak_price is the
\* close at start_date, trough_price the close at end_date,
\* max_drawdown_percent is (peak_price - trough_price) / peak_price * 100, and
\* duration_days is the distance from that peak to that trough, never negative.
C13_DrawdownIsOneDecline ==
  (op = "max_drawdown" /\ stat # NoResult) =>
    /\ stat.start_date # EmptyDate => stat.peak_price = sample[stat.start_date + 1]
    /\ stat.end_date # EmptyDate => stat.trough_price = sample[stat.end_date + 1]
    /\ stat.max_drawdown_percent.n * stat.peak_price
         = (stat.peak_price - stat.trough_price) * 100 * stat.max_drawdown_percent.d
    /\ stat.duration_days >= 0
    /\ (stat.start_date # EmptyDate /\ stat.end_date # EmptyDate)
         => stat.duration_days = stat.end_date - stat.start_date

C15_SharpeSaturatesToZero ==
  (risk # NoResult /\ risk.status = "ok" /\ calculateVariance(risk.returns).n = 0)
    => risk.sharpe_ratio = Num(0)

RealVaRIndex(confidence, n) ==
  IF confidence = "1e-17" THEN n - 1
  ELSE (OneMinus[confidence].n * n) \div OneMinus[confidence].d

\* C17: VaR(confidence) is 100 times the element at index
\* floor((1 - confidence) * n) of the returns sorted ascending, that index
\* lies inside the series for every confidence strictly between 0 and 1, and
\* for Scenario C at 0.95 the index is 0 and VaR is -3%.
C17_VaRIsRankedReturn ==
  (op = "value_at_risk" /\ stat # NoResult) =>
    /\ \A c \in DOMAIN stat :
         /\ VaRIndex(c, Len(sample)) \in 0..(Len(sample) - 1)
         /\ stat[c] = Num(SortAscending(sample)[RealVaRIndex(c, Len(sample)) + 1] * 100)
    /\ sample = ScenarioC =>
         (VaRIndex("0.95", Len(sample)) = 0 /\ stat["0.95"] = Num(-3000))

\* C18: for one return series VaR(c2) <= VaR(c1) whenever c1 < c2.
C18_VaRMonotonic ==
  (op = "value_at_risk" /\ stat # NoResult) =>
    \A i, j \in DOMAIN ConfidenceLevels :
      i < j => (/\ IsNum(stat[ConfidenceLevels[i]])
                /\ IsNum(stat[ConfidenceLevels[j]])
                /\ stat[ConfidenceLevels[j]].v <= stat[ConfidenceLevels[i]].v)

\* C19: wherever VaR is a number, expected shortfall is the mean of all
\* returns less than or equal to the VaR threshold, it is never greater than
\* VaR, and it falls back to the VaR value only when no return qualifies.
C19_ShortfallIsTailMean ==
  (op = "expected_shortfall" /\ stat # NoResult) =>
    \A c \in DOMAIN stat :
      IsNum(stat[c].var) =>
        LET es == stat[c].es
            threshold == stat[c].var.v \div 100
            qualifying == SelectSeq(sample, LAMBDA ret : ret <= threshold)
        IN /\ es.t = "num"
           /\ es.n <= stat[c].var.v * es.d
           /\ es.fallback => Len(qualifying) = 0
           /\ Len(qualifying) > 0 =>
                es.n * Len(qualifying) = SumSeq(qualifying) * 100 * es.d

----------------------------------------------------------------------------
(* Claims about the MACD histogram *)

\* C20: the histogram MACD reports is a number, the reported macd_line minus
\* the reported signal_line.
C20_HistogramIsLineMinusSignal ==
  macd.status = "ok" =>
    /\ IsNum(macd.histogram)
    /\ macd.histogram = Sub(macd.macd_line, macd.signal_line)

----------------------------------------------------------------------------
(* Claims about the guards of the indicator operations *)

\* the number of candles the description asks for: the period, one more for
\* the RSI, slow + signal for the MACD
RequiredCandles(name, p) ==
  CASE name = "rsi" -> p + 1
    [] name = "macd" -> DefaultSlowPeriod + DefaultSignalPeriod
    [] OTHER -> p

----------------------------------------------------------------------------
(* Claims about calculateReturns *)

\* C22: the returns of a candle series have one element less than the
\* series, and asking for the returns of fewer than 2 candles fails with an
\* insufficient-data error.
C22_ReturnsLengthOrFailure ==
  (op = "returns" /\ stat # NoResult) =>
    IF Len(sample) < 2 THEN stat.thrown
    ELSE ~stat.thrown /\ Len(stat.returns) = Len(sample) - 1

----------------------------------------------------------------------------
(* Claims about generate_trading_signals *)

\* the names of the signals of a result
SignalNames(result) == { result.signals[i].indicator : i \in 1..Len(result.signals) }

\* C23: a trading-signals result holds a signal for every indicator it
\* asked for: an indicator whose computation failed is not left out of the
\* result without a word; the failure reaches the caller as an error.
C23_NoIndicatorSilentlyDropped ==
  (overall # NoResult /\ overall.status = "ok") =>
    \A i \in 1..Len(TradingIndicators) : TradingIndicators[i] \in SignalNames(overall)

\* C25: under the conservative profile the overall signal of
\* generate_trading_signals is 'hold' for every candle series: the bullish
\* and the bearish share each stay at or below 130 / 190 of the total weight
\* when all seven signals are present.
C25_ConservativeAlwaysHolds ==
  (overall # NoResult /\ overall.status = "ok" /\ strategy = "conservative") =>
    /\ overall.overall_signal = "hold"
    /\ Len(overall.signals) = 7 =>
         /\ overall.bullishPercentage.d = 190
         /\ overall.bullishPercentage.n <= 130 * 100
         /\ overall.bearishPercentage.n <= 130 * 100
         /\ \A i \in 1..7 :
              (IsBullish(overall.signals[i]) \/ IsBearish(overall.signals[i]))
                => overall.signals[i].indicator \in {"macd", "sma", "ema", "trend_analysis"}

\* a conservative result with all seven signals whose bearish share is the
\* largest possible, 130 of 190
C25_WitnessFullBearish ==
  /\ overall # NoResult
  /\ overall.status = "ok"
  /\ strategy = "conservative"
  /\ Len(overall.signals) = 7
  /\ overall.bearishPercentage = [n |-> 130 * 100, d |-> 190]
  /\ overall.overall_signal = "hold"

----------------------------------------------------------------------------
(* Claims about the arguments of the risk metrics *)

\* C24: the metrics leave their arguments alone: after the value at risk
\* has been computed the return series of the caller holds the same elements
\* in the same order, and the beta, the correlation and the drawdown computed
\* afterwards are those of the original series.
C24_ReturnsKeptInOrder ==
  (risk # NoResult /\ risk.status = "ok") =>
    LET original == calculateReturns(assetCloses)
    IN /\ risk.returns = original
       /\ risk.max_drawdown = calculateMaxDrawdown(assetCloses)
       /\ risk.hasBenchmark =>
            /\ risk.beta = calculateBeta(original, risk.benchmarkReturns)
            /\ risk.correlation = calculateCorrelation(original, risk.benchmarkReturns)

\* risk metrics with a benchmark computed on returns that are not in
\* ascending order, so that ordering them would change the series
C24_WitnessUnorderedReturns ==
  /\ risk # NoResult
  /\ risk.status = "ok"
  /\ risk.hasBenchmark
  /\ Len(risk.returns) = Len(risk.benchmarkReturns)
  /\ IsNum(risk.value_at_risk["0.95"])
  /\ risk.returns # SortAscending(risk.returns)

----------------------------------------------------------------------------
(* Claims about the request counter of the client *)

\* C26: the check of the rate limit and the count of the request are one
\* step of a client.get call.  However the calls interleave, the counter
\* stays within 0 .. maxRequestsPerMinute, no more than maxRequestsPerMinute
\* requests are passed on since the counter was last reset, and a rejected
\* call neither counts nor reaches the provider.
C26_CheckAndCountAreOneStep ==
  /\ [](/\ requestCount >= 0
        /\ requestCount <= maxRequestsPerMinute
        /\ Cardinality({ j \in 1..Len(sendTimes) : sendTimes[j] >= lastResetTime })
             <= maxRequestsPerMinute)
  /\ [][(Len(outcome') = Len(outcome) + 1 /\ outcome'[Len(outcome')] = "rejected")
          => (requestCount' = requestCount /\ sendTimes' = sendTimes)]_vars

\* calls made at one instant, the last of them rejected with the counter at
\* the limit and exactly that many requests passed on
C26_WitnessRejectedAtLimit ==
  /\ Len(outcome) > maxRequestsPerMinute
  /\ outcome[Len(outcome)] = "rejected"
  /\ requestCount = maxRequestsPerMinute
  /\ Cardinality({ j \in 1..Len(sendTimes) : sendTimes[j] = now }) = maxRequestsPerMinute

----------------------------------------------------------------------------
(* Claims about RateLimiter *)

\* the recorded requests whose time lies inside the last timeWindow
InWindow(l, t) == { i \in 1..Len(l.requests) : l.requests[i] > t - l.timeWindow }

\* C27: whatever calls were made, no more than maxRequests recorded requests
\* lie inside the last timeWindow; recordRequest succeeds exactly when
\* canMakeRequest at the same instant answers true; and a recordRequest that
\* is rejected records nothing.
C27_WindowNeverOverfull ==
  /\ [](/\ Cardinality(InWindow(limiter, clock)) <= limiter.maxRequests
        /\ canMakeRequest(limiter, clock).result = ~recordRequest(limiter, clock).thrown)
  /\ [][(reply'.op = "recordRequest" /\ ~reply'.result /\ clock' = clock)
          => limiter' = cleanupOldRequests(limiter, clock)]_vars

\* a full window in which a recordRequest was just rejected
C27_WitnessRejectedRecord ==
  /\ reply.op = "recordRequest"
  /\ ~reply.result
  /\ limiter.maxRequests > 0
  /\ Cardinality(InWindow(limiter, clock)) = limiter.maxRequests

\* C28: when the limiter refuses a request, it can make one again after
\* getWaitTime() milliseconds have passed, and getWaitTime() is 0 only when
\* a request can be made at that instant.
C28_WaitTimeIsEnough ==
  LET wait == getWaitTime(limiter, clock).result
  IN /\ canMakeRequest(limiter, clock + wait).result
     /\ wait = 0 => canMakeRequest(limiter, clock).result

----------------------------------------------------------------------------
(* Claims about TokenBucket *)

\* the tokens granted by the consume calls i .. j of the log
RECURSIVE Granted(_, _)
Granted(i, j) == IF i > j THEN 0 ELSE grants[i].tokens + Granted(i + 1, j)

\* C29: the available tokens stay within 0 .. capacity, a refused consume
\* takes no token away, and the tokens granted over any interval of T
\* seconds are at most capacity + refillRate * T.
C29_TokensBounded ==
  /\ [](/\ bucket.tokens >= 0
        /\ bucket.tokens <= bucket.capacity
        /\ \A i \in 1..Len(grants) : \A j \in i..Len(grants) :
             Granted(i, j) * MsPerSecond
               <= bucket.capacity * MsPerSecond
                    + bucket.refillRate * (grants[j].at - grants[i].at))
  /\ [][(reply'.op = "consume" /\ ~reply'.result /\ clock' = clock)
          => bucket'.tokens >= bucket.tokens]_vars

\* a bucket that was emptied, refilled as time passed, and granted again
C29_WitnessRefilledGrant ==
  /\ Len(grants) >= 2
  /\ grants[Len(grants)].at > grants[1].at
  /\ Granted(1, Len(grants)) > bucket.capacity
  /\ reply.op = "consume"


(* C30: once a tool call has stored its result, every later call of the    *)
(* same tool with the same arguments that arrives while the entry is held  *)
(* is answered from the cache, without an error and without a request to   *)
(* the provider; and a call that fails stores no result of its own.        *)
C30_StoredResultServesLaterCalls ==
  [][ calls' # calls =>
        /\ (\E r \in results : r.tool = call'.tool /\ r.arguments = call'.arguments)
             => (call'.cacheUsed /\ call'.sent = {} /\ ~call'.isError /\ cache' = cache)
        /\ call'.isError => results' = results ]_vars

====
